---- MODULE Spec2Model ----
(***************************************************************************)
(* A model of the toy three-party shuffle prototype (toy/src): the prime   *)
(* field, Shamir (2,3) sharing, the three servers, the offline phase and   *)
(* the online phase, as the Rust source computes them; and of four parts   *)
(* of src/multi_party: MultiPartyServer, CommunicationChannel,             *)
(* ShareManager and the sharing of crypto.rs.                              *)
(*                                                                         *)
(* The specifications share the variables:                                 *)
(*   SpecField    applies the field operations to bounded elements;        *)
(*   SpecVector   applies the vector functions to bounded vectors;         *)
(*   SpecShamir   applies the pure sharing functions to bounded inputs;    *)
(*   Spec         is one instance of ToyProtocol running execute;          *)
(*   SpecRepeat   is one instance running execute again and again;         *)
(*   SpecOnline   is OnlinePhase::execute called on a server map built     *)
(*                through Server's public methods;                         *)
(*   SpecOffline  is OfflinePhase::execute called on such a server map;    *)
(*   SpecMpServer is one MultiPartyServer receiving shares;                *)
(*   SpecChannel  is one CommunicationChannel over a bounded queue;        *)
(*   SpecManager  is ShareManager::distribute_shares, loop by loop;        *)
(*   SpecCrypto   is multi_party::crypto's share_secret.                   *)
(***************************************************************************)
EXTENDS Integers, Sequences, FiniteSets, TLC

VARIABLES
    field,      \* SpecField: the elements drawn and the value computed from them
    shamir,     \* SpecShamir: the scheme, its inputs and the values computed
    config,     \* ToyConfig of the instance
    servers,    \* HashMap<usize, Server>
    pc,         \* position of the run inside execute
    aux,        \* locals of the offline phase (matrix, masks, noise)
    online,     \* OnlinePhase: field_operations and the locals of execute
    result,     \* what execute returned
    log,        \* calls received by each server's share-store entry points
    runs,       \* calls of execute the instance has completed
    mp          \* src/multi_party: a server, a channel, a share manager, a sharing

vars == <<field, shamir, config, servers, pc, aux, online, result, log, runs, mp>>

(***************************************************************************)
(* Bounds of the model.                                                    *)
(***************************************************************************)
MaxModulus == 7      \* field moduli are the primes up to this
MaxUsers   == 2      \* num_users and the number of submissions
MaxRand    == 1      \* random draws of the protocol run are taken in 0..MaxRand
MaxVal     == 2      \* contributor data values are taken in 0..MaxVal
MaxRuns    == 2      \* SpecRepeat: calls of execute on one instance
MaxLen     == 2      \* elements of a vector, rows of a matrix, shares handed over
MaxHeld    == 3      \* SpecMpServer: shares a server holds
MaxQueue   == 2      \* SpecChannel: capacity of the mpsc queue, heartbeats sent
MaxServers == 2      \* SpecManager: num_servers, length of the Custom weights
MaxShares  == 2      \* SpecManager: shares handed to distribute_shares
MaxWeight  == 2      \* SpecManager: a Custom weight, a redundancy_factor
ModelWordBits == 6   \* SpecField: bits of the machine word (64 in the source)

(***************************************************************************)
(* Program constants.                                                      *)
(***************************************************************************)
Features     == 2            \* "Assuming 2 features per user"
LcgMul       == 1103515245   \* multiplier of compute_user_mask
LcgAdd       == 12345        \* increment of compute_user_mask
WordBits     == 64           \* u64

Min(a, b) == IF a < b THEN a ELSE b

(***************************************************************************)
(* Results.  Every Result<T, E> is a record of one shape per T, so that    *)
(* Ok and Err values of the same T compare.  A panic (an arithmetic        *)
(* overflow of a build with overflow checks) is the error "panic".         *)
(***************************************************************************)
NoElem == [value |-> 0, modulus |-> 0]
Ok(v) == [tag |-> "Ok", val |-> v, err |-> ""]
ErrElem(e) == [tag |-> "Err", val |-> NoElem, err |-> e]
ErrSeq(e) == [tag |-> "Err", val |-> <<>>, err |-> e]
IsOk(r) == r.tag = "Ok"

(***************************************************************************)
(* finite_field.rs                                                         *)
(***************************************************************************)
\* FieldElement::new keeping the value as given
FieldElementNewAsGiven(value, modulus) == [value |-> value, modulus |-> modulus]

\* FieldElement::new: value % modulus
FieldElementNew(value, modulus) == [value |-> value % modulus, modulus |-> modulus]

zero(modulus) == [value |-> 0, modulus |-> modulus]
one(modulus) == [value |-> 1, modulus |-> modulus]
is_zero(a) == a.value = 0

\* 2^e mod m, by repeated doubling (2^64 itself is beyond the integers of the model)
RECURSIVE Pow2Mod(_, _)
Pow2Mod(e, m) == IF e = 0 THEN 1 % m ELSE (2 * Pow2Mod(e - 1, m)) % m

\* FieldElement::add
add(a, b) ==
    IF a.modulus # b.modulus THEN ErrElem("ModulusMismatch")
    ELSE LET sum == a.value + b.value
             res == IF sum >= a.modulus THEN sum - a.modulus ELSE sum
         IN Ok(FieldElementNew(res, a.modulus))

\* FieldElement::sub
sub(a, b) ==
    IF a.modulus # b.modulus THEN ErrElem("ModulusMismatch")
    ELSE LET diff == IF a.value >= b.value THEN a.value - b.value
                     ELSE a.modulus - (b.value - a.value)
         IN Ok(FieldElementNew(diff, a.modulus))

\* FieldElement::mul
\* mul without the test of the moduli
mul_any_modulus(a, b) ==
    Ok(FieldElementNew((a.value * b.value) % a.modulus, a.modulus))

\* a == b as derive(PartialEq) compares: field by field
eq(a, b) == a.value = b.value /\ a.modulus = b.modulus

mul(a, b) ==
    IF a.modulus # b.modulus THEN ErrElem("ModulusMismatch")
    ELSE Ok(FieldElementNew((a.value * b.value) % a.modulus, a.modulus))

\* the loop of FieldElement::inverse: <<t, r>> when new_r reaches 0
RECURSIVE InverseLoop(_, _, _, _)
InverseLoop(t, new_t, r, new_r) ==
    IF new_r = 0 THEN <<t, r>>
    ELSE LET quotient == r \div new_r
         IN InverseLoop(new_t, t - quotient * new_t, new_r, r - quotient * new_r)

\* FieldElement::inverse
inverse(a) ==
    IF is_zero(a) THEN ErrElem("DivisionByZero")
    ELSE LET tr == InverseLoop(0, 1, a.modulus, a.value)
             t == IF tr[1] < 0 THEN tr[1] + a.modulus ELSE tr[1]
         IN IF tr[2] > 1 THEN ErrElem("NoInverse")
            ELSE Ok(FieldElementNew(t, a.modulus))

\* FieldElement::div
div(a, b) ==
    IF a.modulus # b.modulus THEN ErrElem("ModulusMismatch")
    ELSE IF is_zero(b) THEN ErrElem("DivisionByZero")
    ELSE LET inv == inverse(b)
         IN IF IsOk(inv) THEN mul(a, inv.val) ELSE inv

\* the loop of FieldElement::pow: square and multiply from the low bit up
RECURSIVE PowLoop(_, _, _)
PowLoop(exponent, base, res) ==
    IF exponent = 0 THEN Ok(res)
    ELSE LET multiplied == IF exponent % 2 = 1 THEN mul(res, base) ELSE Ok(res)
             squared == mul(base, base)
         IN IF ~IsOk(multiplied) THEN multiplied
            ELSE IF ~IsOk(squared) THEN squared
            ELSE PowLoop(exponent \div 2, squared.val, multiplied.val)

\* FieldElement::pow
pow(a, exponent) ==
    IF exponent = 0 THEN Ok(one(a.modulus))
    ELSE PowLoop(exponent, a, one(a.modulus))

\* the loop of vector_add, vector_sub and vector_mul over zip(a, b), from
\* position k on; op names the element operation
RECURSIVE ZipLoop(_, _, _, _, _)
ZipLoop(op, a, b, k, acc) ==
    IF k > Len(a) \/ k > Len(b) THEN Ok(acc)
    ELSE LET e == CASE op = "add" -> add(a[k], b[k])
                    [] op = "sub" -> sub(a[k], b[k])
                    [] OTHER -> mul(a[k], b[k])
         IN IF ~IsOk(e) THEN ErrSeq(e.err)
            ELSE ZipLoop(op, a, b, k + 1, Append(acc, e.val))

\* FiniteField::vector_add
vector_add(a, b) ==
    IF Len(a) # Len(b) THEN ErrSeq("DimensionMismatch") ELSE ZipLoop("add", a, b, 1, <<>>)

\* FiniteField::vector_sub
vector_sub(a, b) ==
    IF Len(a) # Len(b) THEN ErrSeq("DimensionMismatch") ELSE ZipLoop("sub", a, b, 1, <<>>)

\* FiniteField::vector_mul
vector_mul(a, b) ==
    IF Len(a) # Len(b) THEN ErrSeq("DimensionMismatch") ELSE ZipLoop("mul", a, b, 1, <<>>)

\* the inner loop of matrix_vector_mul over zip(row, vector), from position k on
RECURSIVE RowLoop(_, _, _, _)
RowLoop(row, vector, k, sum) ==
    IF k > Len(row) \/ k > Len(vector) THEN Ok(sum)
    ELSE LET product == mul(row[k], vector[k])
         IN IF ~IsOk(product) THEN product
            ELSE LET next_sum == add(sum, product.val)
                 IN IF ~IsOk(next_sum) THEN next_sum
                    ELSE RowLoop(row, vector, k + 1, next_sum.val)

\* the outer loop of matrix_vector_mul, from row r on
RECURSIVE MatrixRowsLoop(_, _, _, _, _)
MatrixRowsLoop(modulus, matrix, vector, r, acc) ==
    IF r > Len(matrix) THEN Ok(acc)
    ELSE LET sum == RowLoop(matrix[r], vector, 1, zero(modulus))
         IN IF ~IsOk(sum) THEN ErrSeq(sum.err)
            ELSE MatrixRowsLoop(modulus, matrix, vector, r + 1, Append(acc, sum.val))

\* FiniteField::matrix_vector_mul: the columns are counted on the first row
matrix_vector_mul(modulus, matrix, vector) ==
    IF matrix = <<>> \/ vector = <<>> THEN ErrSeq("EmptyInput")
    ELSE IF Len(matrix[1]) # Len(vector) THEN ErrSeq("DimensionMismatch")
    ELSE MatrixRowsLoop(modulus, matrix, vector, 1, <<>>)

\* FiniteField::is_prime (trial division by 2 and the odd numbers up to the root)
RECURSIVE IsPrimeLoop(_, _)
IsPrimeLoop(n, i) ==
    IF i * i > n THEN TRUE
    ELSE IF n % i = 0 THEN FALSE
    ELSE IsPrimeLoop(n, i + 2)

is_prime(n) ==
    IF n < 2 THEN FALSE
    ELSE IF n = 2 THEN TRUE
    ELSE IF n % 2 = 0 THEN FALSE
    ELSE IsPrimeLoop(n, 3)

\* the moduli FiniteField::new accepts, within the bound
Moduli == {p \in 0..MaxModulus : is_prime(p)}

\* FieldElement::random: gen_range(0..modulus)
FieldRange(modulus) == 0..(modulus - 1)

(***************************************************************************)
(* finite_field.rs at the edge of the machine word.  The source computes   *)
(* in u64, casts to i64 in inverse and widens to u128 in mul.  Where a     *)
(* value can pass the word, the operators below compute as the source does *)
(* at a word of ModelWordBits bits: an unsigned word holds 0..Word-1, a    *)
(* signed one -HalfWord..HalfWord-1, and an arithmetic overflow is a panic *)
(* in a build with overflow checks ("debug") and wraps in one without      *)
(* ("release").  add, inverse, div and is_prime above are these operators  *)
(* where no value reaches the word.                                        *)
(***************************************************************************)
Word == 2^ModelWordBits
HalfWord == 2^(ModelWordBits - 1)

\* `x as i64` of an unsigned word x
AsSigned(x) == IF x >= HalfWord THEN x - Word ELSE x

\* the signed word a wrapping operation leaves for the exact result x
WrapSigned(x) == AsSigned(x % Word)

SignedOverflows(x) == x < -HalfWord \/ x >= HalfWord

Abs(x) == IF x < 0 THEN -x ELSE x

\* a / b of two signed words, b # 0: the quotient truncated toward zero
TruncDiv(a, b) ==
    LET q == Abs(a) \div Abs(b)
    IN IF (a < 0) = (b < 0) THEN q ELSE -q

\* FieldElement::add with `self.value + other.value` computed in the word
add_w(a, b, build) ==
    IF a.modulus # b.modulus THEN ErrElem("ModulusMismatch")
    ELSE LET exact == a.value + b.value
             sum == exact % Word
             res == IF sum >= a.modulus THEN sum - a.modulus ELSE sum
         IN IF exact >= Word /\ build = "debug" THEN ErrElem("panic")
            ELSE Ok(FieldElementNew(res, a.modulus))

\* Neg for FieldElement
neg(a) ==
    IF is_zero(a) THEN a ELSE FieldElementNew(a.modulus - a.value, a.modulus)

\* the loop of FieldElement::inverse on signed words:
\* [panic, t, r] when new_r reaches 0 or an operation overflows with checks on
RECURSIVE InverseLoopW(_, _, _, _, _)
InverseLoopW(t, new_t, r, new_r, build) ==
    IF new_r = 0 THEN [panic |-> FALSE, t |-> t, r |-> r]
    ELSE IF r = -HalfWord /\ new_r = -1 THEN [panic |-> TRUE, t |-> t, r |-> r]
    ELSE LET quotient == TruncDiv(r, new_r)
             qt == quotient * new_t
             nt == t - WrapSigned(qt)
             qr == quotient * new_r
             nr == r - WrapSigned(qr)
         IN IF build = "debug" /\ (SignedOverflows(qt) \/ SignedOverflows(nt)
                                   \/ SignedOverflows(qr) \/ SignedOverflows(nr))
            THEN [panic |-> TRUE, t |-> t, r |-> r]
            ELSE InverseLoopW(new_t, WrapSigned(nt), new_r, WrapSigned(nr), build)

\* FieldElement::inverse with `self.modulus as i64`, `self.value as i64` and
\* `t as u64` computed in the word
inverse_w(a, build) ==
    IF is_zero(a) THEN ErrElem("DivisionByZero")
    ELSE LET l == InverseLoopW(0, 1, AsSigned(a.modulus), AsSigned(a.value), build)
             moved == l.t + AsSigned(a.modulus)
             t == IF l.t < 0 THEN WrapSigned(moved) ELSE l.t
         IN IF l.panic THEN ErrElem("panic")
            ELSE IF l.r > 1 THEN ErrElem("NoInverse")
            ELSE IF l.t < 0 /\ SignedOverflows(moved) /\ build = "debug"
                 THEN ErrElem("panic")
            ELSE Ok(FieldElementNew(t % Word, a.modulus))

\* FieldElement::div over inverse_w
div_w(a, b, build) ==
    IF a.modulus # b.modulus THEN ErrElem("ModulusMismatch")
    ELSE IF is_zero(b) THEN ErrElem("DivisionByZero")
    ELSE LET inv == inverse_w(b, build)
         IN IF IsOk(inv) THEN mul(a, inv.val) ELSE inv

\* the loop of FiniteField::is_prime with `i * i` and `i += 2` computed in the
\* word: "true", "false" or "panic"
RECURSIVE IsPrimeLoopW(_, _, _)
IsPrimeLoopW(n, i, build) ==
    IF i * i >= Word /\ build = "debug" THEN "panic"
    ELSE IF (i * i) % Word > n THEN "true"
    ELSE IF n % i = 0 THEN "false"
    ELSE IF i + 2 >= Word /\ build = "debug" THEN "panic"
    ELSE IsPrimeLoopW(n, (i + 2) % Word, build)

\* FiniteField::is_prime in the word
is_prime_w(n, build) ==
    IF n < 2 THEN "false"
    ELSE IF n = 2 THEN "true"
    ELSE IF n % 2 = 0 THEN "false"
    ELSE IsPrimeLoopW(n, 3, build)

\* FiniteField::find_generator
find_generator(modulus) == IF modulus > 5 THEN 5 ELSE 2

\* FiniteField::new in the word; the field built is the record of its modulus
\* with its generator as value
FiniteFieldNew(modulus, build) ==
    LET prime == is_prime_w(modulus, build)
    IN IF prime = "panic" THEN ErrElem("panic")
       ELSE IF prime = "false" THEN ErrElem("NonPrimeModulus")
       ELSE Ok([value |-> find_generator(modulus), modulus |-> modulus])

(***************************************************************************)
(* secret_sharing.rs                                                       *)
(***************************************************************************)
\* ShamirSecretSharing::new in the word; the scheme built is given by its field
ShamirSecretSharingNew(threshold, num_shares, modulus, build) ==
    IF threshold > num_shares THEN ErrElem("DimensionMismatch")
    ELSE IF threshold < 2 THEN ErrElem("DimensionMismatch")
    ELSE FiniteFieldNew(modulus, build)

\* ShamirSecretSharing::new(threshold, num_shares, modulus) accepts these
ShamirNewOk(threshold, num_shares, modulus) ==
    /\ threshold <= num_shares
    /\ threshold >= 2
    /\ is_prime(modulus)

\* the loop of evaluate_polynomial over coefficients[k..]
RECURSIVE EvalLoop(_, _, _, _, _)
EvalLoop(coefficients, point, k, power, acc) ==
    IF k > Len(coefficients) THEN Ok(acc)
    ELSE LET pw == mul(power, point)
         IN IF ~IsOk(pw) THEN pw
            ELSE LET term == mul(coefficients[k], pw.val)
                 IN IF ~IsOk(term) THEN term
                    ELSE LET s == add(acc, term.val)
                         IN IF ~IsOk(s) THEN s
                            ELSE EvalLoop(coefficients, point, k + 1, pw.val, s.val)

\* ShamirSecretSharing::evaluate_polynomial
evaluate_polynomial(ss, coefficients, point) ==
    IF coefficients = <<>> THEN ErrElem("EmptyInput")
    ELSE EvalLoop(coefficients, point, 2, one(ss.modulus), coefficients[1])

\* SecretShare::new
SecretShareNew(id, value, point) == [id |-> id, value |-> value, point |-> point]

\* ShamirSecretSharing::share_secret; drawn are the random coefficients it draws
\* (threshold - 1 of them), each a field element value
share_secret(ss, secret, drawn) ==
    IF secret.modulus # ss.modulus THEN ErrSeq("ModulusMismatch")
    ELSE LET coefficients ==
                 <<secret>> \o [k \in 1..(ss.threshold - 1) |->
                                    FieldElementNew(drawn[k], ss.modulus)]
             value(i) == evaluate_polynomial(ss, coefficients,
                                             FieldElementNew(i + 1, ss.modulus))
         IN IF \E i \in 0..(ss.num_shares - 1) : ~IsOk(value(i))
            THEN ErrSeq((value(CHOOSE i \in 0..(ss.num_shares - 1) :
                                  ~IsOk(value(i)))).err)
            ELSE Ok([i1 \in 1..ss.num_shares |->
                        SecretShareNew(i1 - 1, value(i1 - 1).val,
                                       FieldElementNew(i1, ss.modulus))])

\* (a as u64) - (b as u64) reduced by FieldElement::new(_, p), a build without
\* overflow checks: the difference wraps modulo 2^64 before the reduction
WrappingSubMod(a, b, p) ==
    IF a >= b THEN (a - b) % p
    ELSE (Pow2Mod(WordBits, p) + a - b) % p

\* the inner loop of reconstruct_secret for position i (0-based), from j on:
\* <<numerator, denominator>>
RECURSIVE LagrangeLoop(_, _, _, _, _, _)
LagrangeLoop(p, n, i, j, numerator, denominator) ==
    IF j >= n THEN <<numerator, denominator>>
    ELSE IF i = j THEN LagrangeLoop(p, n, i, j + 1, numerator, denominator)
    ELSE LET n_minus_j == FieldElementNew(n - (j + 1), p)
             i_minus_j == [value |-> WrappingSubMod(i + 1, j + 1, p), modulus |-> p]
         IN LagrangeLoop(p, n, i, j + 1,
                         mul(numerator, n_minus_j).val,
                         mul(denominator, i_minus_j).val)

\* the outer loop of reconstruct_secret from position i on
RECURSIVE ReconstructLoop(_, _, _, _)
ReconstructLoop(p, shares, i, secret) ==
    IF i >= Len(shares) THEN Ok(secret)
    ELSE LET nd == LagrangeLoop(p, Len(shares), i, 0, one(p), one(p))
             lagrange_coeff == div(nd[1], nd[2])
         IN IF ~IsOk(lagrange_coeff) THEN lagrange_coeff
            ELSE LET contribution == mul(shares[i + 1].value, lagrange_coeff.val)
                 IN IF ~IsOk(contribution) THEN contribution
                    ELSE LET s == add(secret, contribution.val)
                         IN IF ~IsOk(s) THEN s
                            ELSE ReconstructLoop(p, shares, i + 1, s.val)

\* ShamirSecretSharing::reconstruct_secret.  (i + 1) - (j + 1) is a u64
\* subtraction: for i = 0, j = 1 it overflows, which panics in a build with
\* overflow checks ("debug") and wraps in one without ("release").
reconstruct_secret(ss, shares, build) ==
    IF Len(shares) < ss.threshold THEN ErrElem("DimensionMismatch")
    ELSE IF build = "debug" /\ Len(shares) >= 2 THEN ErrElem("panic")
    ELSE ReconstructLoop(ss.modulus, shares, 0, zero(ss.modulus))

\* the loop of add_shares from position k on
RECURSIVE AddSharesLoop(_, _, _, _)
AddSharesLoop(a, b, k, acc) ==
    IF k > Len(a) THEN Ok(acc)
    ELSE IF a[k].id # b[k].id THEN ErrSeq("DimensionMismatch")
    ELSE LET sum == add(a[k].value, b[k].value)
         IN IF ~IsOk(sum) THEN ErrSeq(sum.err)
            ELSE AddSharesLoop(a, b, k + 1,
                               Append(acc, SecretShareNew(a[k].id, sum.val, a[k].point)))

\* ShamirSecretSharing::add_shares
add_shares(a, b) ==
    IF Len(a) # Len(b) THEN ErrSeq("DimensionMismatch")
    ELSE AddSharesLoop(a, b, 1, <<>>)

\* the loop of multiply_by_constant from position k on
RECURSIVE MulConstLoop(_, _, _, _)
MulConstLoop(shares, constant, k, acc) ==
    IF k > Len(shares) THEN Ok(acc)
    ELSE LET product == mul(shares[k].value, constant)
         IN IF ~IsOk(product) THEN ErrSeq(product.err)
            ELSE MulConstLoop(shares, constant, k + 1,
                              Append(acc, SecretShareNew(shares[k].id, product.val,
                                                         shares[k].point)))

\* ShamirSecretSharing::multiply_by_constant
multiply_by_constant(shares, constant) == MulConstLoop(shares, constant, 1, <<>>)

\* the loop of share_vector from position k on; drawn[k] are the coefficients
\* drawn for secrets[k]
RECURSIVE ShareVectorLoop(_, _, _, _, _)
ShareVectorLoop(ss, secrets, drawn, k, acc) ==
    IF k > Len(secrets) THEN Ok(acc)
    ELSE LET shares == share_secret(ss, secrets[k], drawn[k])
         IN IF ~IsOk(shares) THEN shares
            ELSE ShareVectorLoop(ss, secrets, drawn, k + 1, Append(acc, shares.val))

\* ShamirSecretSharing::share_vector
share_vector(ss, secrets, drawn) == ShareVectorLoop(ss, secrets, drawn, 1, <<>>)

(***************************************************************************)
(* SpecShamir: the sharing functions applied to bounded inputs.            *)
(***************************************************************************)
Builds == {"debug", "release"}

\* ShamirSecretSharing::new(2, 3, modulus), as ToyProtocol::new and the tests build it
Schemes == {[threshold |-> 2, num_shares |-> 3, modulus |-> p] : p \in Moduli}

\* the slices of a share list a caller can hand to reconstruct_secret: the shares
\* at the positions of idx, in order
RECURSIVE Pick(_, _, _)
Pick(shares, idx, k) ==
    IF k > Len(shares) THEN <<>>
    ELSE (IF k \in idx THEN <<shares[k]>> ELSE <<>>) \o Pick(shares, idx, k + 1)

ShamirInit ==
    /\ shamir \in {[pc |-> "new", ss |-> sc, build |-> b, s1 |-> 0, s2 |-> 0, k |-> 0,
                    shares_a |-> <<>>, shares_b |-> <<>>, cur |-> <<>>, op |-> "none",
                    picked |-> <<>>, out |-> ErrElem("none")] :
                       sc \in Schemes, b \in Builds}

\* shares = shamir.share_secret(secret)
ShareFirst ==
    /\ shamir.pc = "new"
    /\ \E s \in FieldRange(shamir.ss.modulus), c \in FieldRange(shamir.ss.modulus) :
          LET r == share_secret(shamir.ss, FieldElementNew(s, shamir.ss.modulus), <<c>>)
          IN /\ IsOk(r)
             /\ shamir' = [shamir EXCEPT !.pc = "shared", !.s1 = s, !.shares_a = r.val,
                                         !.cur = r.val, !.op = "share"]
    /\ UNCHANGED <<mp, runs, field, config, servers, pc, aux, online, result, log>>

\* shares_b = shamir.share_secret(b); sum_shares = shamir.add_shares(&shares_a, &shares_b)
AddShares ==
    /\ shamir.pc = "shared"
    /\ \E s \in FieldRange(shamir.ss.modulus), c \in FieldRange(shamir.ss.modulus) :
          LET b == share_secret(shamir.ss, FieldElementNew(s, shamir.ss.modulus), <<c>>)
              r == add_shares(shamir.shares_a, b.val)
          IN /\ IsOk(b)
             /\ IsOk(r)
             /\ shamir' = [shamir EXCEPT !.pc = "combined", !.s2 = s, !.shares_b = b.val,
                                         !.cur = r.val, !.op = "add"]
    /\ UNCHANGED <<mp, runs, field, config, servers, pc, aux, online, result, log>>

\* the lists a caller can make of the shares of a sharing: the list itself, a
\* slice of it, the list reversed, and the list with the id or the point of one
\* share replaced through SecretShare::new
CallerLists(shares, modulus) ==
    {shares, SubSeq(shares, 1, Len(shares) - 1),
     [k \in 1..Len(shares) |-> shares[Len(shares) + 1 - k]]}
    \cup {[shares EXCEPT ![k] = SecretShareNew(id, shares[k].value, shares[k].point)] :
             k \in 1..Len(shares), id \in 0..(Len(shares) - 1)}
    \cup {[shares EXCEPT ![k] = SecretShareNew(shares[k].id, shares[k].value,
                                               FieldElementNew(x, modulus))] :
             k \in 1..Len(shares), x \in 1..Len(shares)}

\* shamir.add_shares(&shares_a, &b) on a list b a caller made of a second sharing
AddSharesOfCaller ==
    /\ shamir.pc = "shared"
    /\ \E s \in 0..1, c \in 0..1 :
          LET second == share_secret(shamir.ss, FieldElementNew(s, shamir.ss.modulus), <<c>>)
          IN /\ IsOk(second)
             /\ \E b \in CallerLists(second.val, shamir.ss.modulus) :
                   \E r \in {add_shares(shamir.shares_a, b)} :
                      shamir' = [shamir EXCEPT
                                    !.pc = "added", !.s2 = s, !.shares_b = b,
                                    !.cur = r.val, !.op = "add_shares",
                                    !.out = IF IsOk(r) THEN Ok(zero(shamir.ss.modulus))
                                            ELSE ErrElem(r.err)]
    /\ UNCHANGED <<mp, runs, field, config, servers, pc, aux, online, result, log>>

\* shamir.multiply_by_constant(&shares_a, constant)
MultiplyByConstant ==
    /\ shamir.pc = "shared"
    /\ \E k \in FieldRange(shamir.ss.modulus) :
          LET r == multiply_by_constant(shamir.shares_a,
                                        FieldElementNew(k, shamir.ss.modulus))
          IN /\ IsOk(r)
             /\ shamir' = [shamir EXCEPT !.pc = "combined", !.k = k, !.cur = r.val,
                                         !.op = "mul"]
    /\ UNCHANGED <<mp, runs, field, config, servers, pc, aux, online, result, log>>

\* shamir.reconstruct_secret(&cur[..]) on a slice of the current shares
Reconstruct ==
    /\ shamir.pc \in {"shared", "combined"}
    /\ \E idx \in SUBSET (1..Len(shamir.cur)) :
          LET picked == Pick(shamir.cur, idx, 1)
          IN shamir' = [shamir EXCEPT !.pc = "done", !.picked = picked,
                            !.out = reconstruct_secret(shamir.ss, picked, shamir.build)]
    /\ UNCHANGED <<mp, runs, field, config, servers, pc, aux, online, result, log>>

(***************************************************************************)
(* server.rs                                                               *)
(***************************************************************************)
\* Server::new: state Offline, empty share stores, final_result None
\* (final_result is <<>> for None and <<matrix>> for Some(matrix))
ServerNew(id, role) ==
    [id |-> id, role |-> role, state |-> "Offline",
     permutation_shares |-> <<>>, mask_shares |-> <<>>, noise_shares |-> <<>>,
     final_result |-> <<>>]

is_computational(server) == server.role = "Computational"

\* store_permutation_shares without the test of the role
store_permutation_shares_any_role(server, shares) ==
    [server EXCEPT !.permutation_shares = shares]

\* Server::store_permutation_shares
store_permutation_shares(server, shares) ==
    IF is_computational(server) THEN [server EXCEPT !.permutation_shares = shares]
    ELSE server

\* Server::store_mask_shares
store_mask_shares(server, shares) ==
    IF is_computational(server) THEN [server EXCEPT !.mask_shares = shares]
    ELSE server

\* Server::store_noise_shares
store_noise_shares(server, shares) ==
    IF is_computational(server) THEN [server EXCEPT !.noise_shares = shares]
    ELSE server

\* Server::receive_permutation_shares
receive_permutation_shares(server, shares) ==
    IF is_computational(server) THEN [server EXCEPT !.permutation_shares = shares]
    ELSE server

\* Server::receive_mask_shares
receive_mask_shares(server, shares) ==
    IF is_computational(server) THEN [server EXCEPT !.mask_shares = shares]
    ELSE server

\* Server::receive_noise_shares
receive_noise_shares(server, shares) ==
    IF is_computational(server) THEN [server EXCEPT !.noise_shares = shares]
    ELSE server

\* set_final_result writing the noise store as well
set_final_result_and_store(server, res) ==
    IF is_computational(server)
    THEN [server EXCEPT !.final_result = <<res>>, !.noise_shares = res]
    ELSE server

\* Server::set_final_result
set_final_result(server, res) ==
    IF is_computational(server) THEN [server EXCEPT !.final_result = <<res>>]
    ELSE server

\* Server::get_final_result: final_result.clone().unwrap_or_default()
get_final_result(server) ==
    IF server.final_result = <<>> THEN <<>> ELSE server.final_result[1]

\* ToyProtocol::new: servers 0 (Auxiliary), 1 and 2 (Computational)
NewServers ==
    [id \in 0..2 |-> ServerNew(id, IF id = 0 THEN "Auxiliary" ELSE "Computational")]

\* From<FieldError> for ProtocolError (a panic is no error value and passes)
ProtocolErrorFrom(err) ==
    IF err \in {"DimensionMismatch", "EmptyInput", "panic"} THEN err
    ELSE "FieldOperationFailed"

\* ToyProtocol::new in the word: FiniteField::new(config.field_modulus)?, then
\* ShamirSecretSharing::new(2, 3, config.field_modulus)?; OfflinePhase::new,
\* OnlinePhase::new and Server::new do not fail.  The instance built is given by
\* its field.
ToyProtocolNew(cfg, build) ==
    LET f == FiniteFieldNew(cfg.field_modulus, build)
        secret_sharing == ShamirSecretSharingNew(2, 3, cfg.field_modulus, build)
    IN IF ~IsOk(f) THEN ErrElem(ProtocolErrorFrom(f.err))
       ELSE IF ~IsOk(secret_sharing) THEN ErrElem(ProtocolErrorFrom(secret_sharing.err))
       ELSE f

(***************************************************************************)
(* offline_phase.rs                                                        *)
(***************************************************************************)
\* the scheme ToyProtocol::new builds for a configuration
SchemeOf(cfg) == [threshold |-> 2, num_shares |-> 3, modulus |-> cfg.field_modulus]

\* the outcomes of shuffle_permutation on (0..n): the bijections of 1..n
ShuffleOutcomes(n) ==
    {f \in [1..n -> 1..n] : \A a, b \in 1..n : f[a] = f[b] => a = b}

\* generate_permutation_matrix writing every row's one at the position of row 0
generate_permutation_matrix_one_column(cfg, permutation) ==
    [i \in 1..cfg.num_users |->
        [j \in 1..cfg.num_users |->
            IF permutation[1] = j THEN one(cfg.field_modulus)
            ELSE zero(cfg.field_modulus)]]

\* OfflinePhase::generate_permutation_matrix: matrix[i][permutation[i]] = one
generate_permutation_matrix(cfg, permutation) ==
    [i \in 1..cfg.num_users |->
        [j \in 1..cfg.num_users |->
            IF permutation[i] = j THEN one(cfg.field_modulus)
            ELSE zero(cfg.field_modulus)]]

\* the draws of the run's random field elements, within the bound
RandRange(modulus) == 0..Min(modulus - 1, MaxRand)

\* OfflinePhase::generate_user_masks: random_vector(2) for each user
generate_user_masks(cfg, drawn) ==
    [i \in 1..cfg.num_users |->
        [k \in 1..Features |-> FieldElementNew(drawn[i][k], cfg.field_modulus)]]

\* OfflinePhase::generate_laplace_noise: ((|scale * (ln u1 - ln u2)| * 1000) as u64)
\* % modulus; magnitude stands for the integer part of |ln u1 - ln u2| * 1000, and a
\* scale of 0 gives 0 (or NaN, which the cast takes to 0)
generate_laplace_noise(cfg, magnitude) ==
    FieldElementNew((cfg.noise_scale * magnitude) % cfg.field_modulus, cfg.field_modulus)

\* OfflinePhase::generate_dp_noise: one noise value per user
generate_dp_noise(cfg, magnitudes) ==
    [i \in 1..cfg.num_users |-> generate_laplace_noise(cfg, magnitudes[i])]

\* the loop of share_permutation_matrix and share_user_masks from row k on
RECURSIVE ShareRowsLoop(_, _, _, _, _)
ShareRowsLoop(ss, rows, drawn, k, acc) ==
    IF k > Len(rows) THEN Ok(acc)
    ELSE LET row_shares == share_vector(ss, rows[k], drawn[k])
         IN IF ~IsOk(row_shares) THEN ErrSeq("SharingFailed")
            ELSE ShareRowsLoop(ss, rows, drawn, k + 1, Append(acc, row_shares.val))

\* OfflinePhase::share_permutation_matrix
share_permutation_matrix(ss, matrix, drawn) == ShareRowsLoop(ss, matrix, drawn, 1, <<>>)

\* share_user_masks failing whatever the masks
share_user_masks_failing(ss, masks, drawn) == ErrSeq("SharingFailed")

\* OfflinePhase::share_user_masks
share_user_masks(ss, masks, drawn) == ShareRowsLoop(ss, masks, drawn, 1, <<>>)

\* OfflinePhase::share_noise_vector
share_noise_vector(ss, noise, drawn) ==
    LET r == share_vector(ss, noise, drawn)
    IN IF IsOk(r) THEN r ELSE ErrSeq("SharingFailed")

\* the coefficient draws of sharing a rows x cols matrix: one per element
CoefficientDraws(rows, cols, modulus) ==
    [1..rows -> [1..cols -> [1..1 -> RandRange(modulus)]]]

(***************************************************************************)
(* online_phase.rs.  Each fallible function returns                        *)
(* [tag, val, err, ops]: its Result and the field operations it counted.   *)
(***************************************************************************)
OkOps(v, ops) == [tag |-> "Ok", val |-> v, err |-> "", ops |-> ops]
ErrOps(e, ops) == [tag |-> "Err", val |-> <<>>, err |-> e, ops |-> ops]

\* one step of the stream of compute_user_mask, reduced modulo p:
\* rng_seed.wrapping_mul(1103515245).wrapping_add(12345) % p.  For seed + user_id
\* below 16 neither of the two steps reaches 2^64, so no step wraps and the
\* reduction modulo p commutes with the step.
LcgStepMod(x, p) == (((x % p) * (LcgMul % p)) + LcgAdd) % p

\* OnlinePhase::compute_user_mask
compute_user_mask(cfg, user_id, seed) ==
    LET p == cfg.field_modulus
        m1 == LcgStepMod(seed + user_id, p)
        m2 == LcgStepMod(m1, p)
    IN <<FieldElementNew(m1, p), FieldElementNew(m2, p)>>

\* the loop of compute_user_share from position k on
RECURSIVE UserShareLoop(_, _, _, _)
UserShareLoop(user_data, mask, k, acc) ==
    IF k > Len(user_data) THEN OkOps(acc, Len(acc))
    ELSE LET share_val == sub(user_data[k], mask[k])
         IN IF ~IsOk(share_val) THEN ErrOps("FieldOperationFailed", Len(acc))
            ELSE UserShareLoop(user_data, mask, k + 1, Append(acc, share_val.val))

\* OnlinePhase::compute_user_share
compute_user_share(user_data, mask) ==
    IF Len(user_data) # Len(mask) THEN ErrOps("DimensionMismatch", 0)
    ELSE UserShareLoop(user_data, mask, 1, <<>>)

\* the loop of process_user_submissions from user k on
RECURSIVE SubmissionsLoop(_, _, _, _, _)
SubmissionsLoop(cfg, user_data, k, acc, ops) ==
    IF k > Len(user_data) THEN OkOps(acc, ops)
    ELSE LET user == user_data[k]
             user_mask == compute_user_mask(cfg, user.user_id, user.seed)
             user_share == compute_user_share(user.data, user_mask)
         IN IF ~IsOk(user_share) THEN ErrOps(user_share.err, ops + user_share.ops)
            ELSE SubmissionsLoop(cfg, user_data, k + 1, Append(acc, user_share.val),
                                 ops + user_share.ops)

\* OnlinePhase::process_user_submissions
process_user_submissions(cfg, user_data) == SubmissionsLoop(cfg, user_data, 1, <<>>, 0)

\* OnlinePhase::get_permutation_element (i, j 0-based)
get_permutation_element(cfg, permutation_shares, i, j) ==
    IF i < Len(permutation_shares) /\ j < Len(permutation_shares[i + 1])
    THEN LET share == permutation_shares[i + 1][j + 1]
         IN IF share # <<>> THEN share[1].value ELSE zero(cfg.field_modulus)
    ELSE zero(cfg.field_modulus)

\* OnlinePhase::get_noise_element (user_id, feature_id 0-based)
get_noise_element(cfg, noise_shares, user_id, feature_id) ==
    IF user_id < Len(noise_shares)
    THEN LET share == noise_shares[user_id + 1]
         IN IF feature_id < Len(share) THEN share[feature_id + 1].value
            ELSE zero(cfg.field_modulus)
    ELSE zero(cfg.field_modulus)

\* the loops of apply_permutation_locally, from (i, j, k) on (0-based), in the order
\* of the source: rows i, columns j, features k
RECURSIVE PermutationLoop(_, _, _, _, _, _, _, _)
PermutationLoop(cfg, data, permutation_shares, i, j, k, shuffled, ops) ==
    LET n == Len(data)
    IN IF i >= n THEN OkOps(shuffled, ops)
       ELSE IF j >= n
            THEN PermutationLoop(cfg, data, permutation_shares, i + 1, 0, 0, shuffled, ops)
       ELSE LET perm_element == get_permutation_element(cfg, permutation_shares, i, j)
            IN IF is_zero(perm_element) \/ k >= Features
               THEN PermutationLoop(cfg, data, permutation_shares, i, j + 1, 0,
                                    shuffled, ops)
               ELSE LET product == mul(perm_element, data[j + 1][k + 1])
                    IN IF ~IsOk(product) THEN ErrOps("FieldOperationFailed", ops)
                       ELSE LET sum == add(shuffled[i + 1][k + 1], product.val)
                            IN IF ~IsOk(sum) THEN ErrOps("FieldOperationFailed", ops)
                               ELSE PermutationLoop(cfg, data, permutation_shares, i, j,
                                        k + 1,
                                        [shuffled EXCEPT ![i + 1][k + 1] = sum.val],
                                        ops + 2)

\* OnlinePhase::apply_permutation_locally
apply_permutation_locally(cfg, data, permutation_shares) ==
    PermutationLoop(cfg, data, permutation_shares, 0, 0, 0,
                    [i \in 1..Len(data) |-> [k \in 1..Features |-> zero(cfg.field_modulus)]],
                    0)

\* the loops of add_noise_locally, from (i, j) on (0-based)
RECURSIVE NoiseLoop(_, _, _, _, _, _, _, _)
NoiseLoop(cfg, data, noise_shares, i, j, row, randomized, ops) ==
    IF i >= Len(data) THEN OkOps(randomized, ops)
    ELSE IF j >= Len(data[i + 1])
         THEN NoiseLoop(cfg, data, noise_shares, i + 1, 0, <<>>,
                        Append(randomized, row), ops)
    ELSE LET noise == get_noise_element(cfg, noise_shares, i, j)
             noised_feature == add(data[i + 1][j + 1], noise)
         IN IF ~IsOk(noised_feature) THEN ErrOps("FieldOperationFailed", ops)
            ELSE NoiseLoop(cfg, data, noise_shares, i, j + 1,
                           Append(row, noised_feature.val), randomized, ops + 1)

\* OnlinePhase::add_noise_locally
add_noise_locally(cfg, data, noise_shares) ==
    NoiseLoop(cfg, data, noise_shares, 0, 0, <<>>, <<>>, 0)

\* OnlinePhase::compute_local_shuffle
compute_local_shuffle(cfg, server, user_shares) ==
    apply_permutation_locally(cfg, user_shares, server.permutation_shares)

\* the loop of silent_shuffle over server_id in 1..=2: the servers present compute
\* their local shuffle, and server 1's result is the one kept
RECURSIVE ShuffleServersLoop(_, _, _, _, _, _)
ShuffleServersLoop(cfg, svs, user_shares, server_id, shuffled_shares, ops) ==
    IF server_id > 2 THEN OkOps(shuffled_shares, ops)
    ELSE IF server_id \notin DOMAIN svs
         THEN ShuffleServersLoop(cfg, svs, user_shares, server_id + 1, shuffled_shares, ops)
    ELSE LET server_shuffled == compute_local_shuffle(cfg, svs[server_id], user_shares)
         IN IF ~IsOk(server_shuffled) THEN ErrOps(server_shuffled.err,
                                                  ops + server_shuffled.ops)
            ELSE ShuffleServersLoop(cfg, svs, user_shares, server_id + 1,
                     IF server_id = 1 THEN server_shuffled.val ELSE shuffled_shares,
                     ops + server_shuffled.ops)

\* OnlinePhase::silent_shuffle
silent_shuffle(cfg, svs, user_shares) ==
    ShuffleServersLoop(cfg, svs, user_shares, 1, <<>>, 0)

\* the loop of silent_randomization over server_id in 1..=2, each step being
\* compute_local_randomization (add_noise_locally, then set_final_result);
\* returns the result with the servers as the loop left them
RECURSIVE RandomizeServersLoop(_, _, _, _, _, _)
RandomizeServersLoop(cfg, svs, shuffled_shares, server_id, randomized_shares, ops) ==
    IF server_id > 2
    THEN [res |-> OkOps(randomized_shares, ops), servers |-> svs]
    ELSE IF server_id \notin DOMAIN svs
         THEN RandomizeServersLoop(cfg, svs, shuffled_shares, server_id + 1,
                                   randomized_shares, ops)
    ELSE LET randomized == add_noise_locally(cfg, shuffled_shares,
                                             svs[server_id].noise_shares)
         IN IF ~IsOk(randomized)
            THEN [res |-> ErrOps(randomized.err, ops + randomized.ops), servers |-> svs]
            ELSE RandomizeServersLoop(cfg,
                     [svs EXCEPT ![server_id] = set_final_result(@, randomized.val)],
                     shuffled_shares, server_id + 1,
                     IF server_id = 1 THEN randomized.val ELSE randomized_shares,
                     ops + randomized.ops)

\* OnlinePhase::silent_randomization
silent_randomization(cfg, svs, shuffled_shares) ==
    RandomizeServersLoop(cfg, svs, shuffled_shares, 1, <<>>, 0)

\* the sum of element (i, j) (0-based) over server_results[s..], with the additions
\* counted: <<Result, ops>>
RECURSIVE CombineElement(_, _, _, _, _, _)
CombineElement(server_results, i, j, s, sum, ops) ==
    IF s > Len(server_results) THEN OkOps(<<sum>>, ops)
    ELSE LET server_result == server_results[s]
         IN IF i < Len(server_result) /\ j < Len(server_result[i + 1])
            THEN LET next == add(sum, server_result[i + 1][j + 1])
                 IN IF ~IsOk(next) THEN ErrOps("FieldOperationFailed", ops)
                    ELSE CombineElement(server_results, i, j, s + 1, next.val, ops + 1)
            ELSE CombineElement(server_results, i, j, s + 1, sum, ops)

\* the loops of combine_server_results from (i, j) on (0-based)
RECURSIVE CombineLoop(_, _, _, _, _, _, _)
CombineLoop(cfg, server_results, i, j, combined_user, combined, ops) ==
    IF i >= Len(server_results[1]) THEN OkOps(combined, ops)
    ELSE IF j >= Len(server_results[1][i + 1])
         THEN CombineLoop(cfg, server_results, i + 1, 0, <<>>,
                          Append(combined, combined_user), ops)
    ELSE LET e == CombineElement(server_results, i, j, 1, zero(cfg.field_modulus), 0)
         IN IF ~IsOk(e) THEN ErrOps(e.err, ops + e.ops)
            ELSE CombineLoop(cfg, server_results, i, j + 1,
                             Append(combined_user, e.val[1]), combined, ops + e.ops)

\* OnlinePhase::combine_server_results
combine_server_results(cfg, server_results) ==
    IF server_results = <<>> THEN ErrOps("EmptyInput", 0)
    ELSE CombineLoop(cfg, server_results, 0, 0, <<>>, <<>>, 0)

\* OnlinePhase::reconstruct_result: the final results of the servers present among
\* 1 and 2, combined
reconstruct_result(cfg, svs) ==
    LET server_shares ==
            (IF 1 \in DOMAIN svs THEN <<get_final_result(svs[1])>> ELSE <<>>)
            \o (IF 2 \in DOMAIN svs THEN <<get_final_result(svs[2])>> ELSE <<>>)
    IN combine_server_results(cfg, server_shares)

(***************************************************************************)
(* src/multi_party/server.rs.  A DataShare is a number; the channels and   *)
(* the threshold encryption of the server are left out.                    *)
(***************************************************************************)
Roles == {"First", "Second", "Third", "Helper"}

\* ServerRole::holds_data
holds_data(role) == role \in {"First", "Second"}

\* MultiPartyServer::new
MultiPartyServerNew(id, role) ==
    [id |-> id, role |-> role, state |-> "Offline", shares |-> <<>>, round_number |-> 0]

\* receive_shares replacing the shares held
receive_shares_replacing(server, shares) ==
    IF ~holds_data(server.role) THEN [res |-> "ServerError", server |-> server]
    ELSE [res |-> "Ok",
          server |-> [server EXCEPT !.shares = shares, !.state = "Participating"]]

\* MultiPartyServer::receive_shares
receive_shares(server, shares) ==
    IF ~holds_data(server.role) THEN [res |-> "ServerError", server |-> server]
    ELSE [res |-> "Ok",
          server |-> [server EXCEPT !.shares = @ \o shares, !.state = "Participating"]]

(***************************************************************************)
(* src/multi_party/communication.rs.  The channel owns both ends of one    *)
(* bounded mpsc queue, as MultiPartyServer::initialize_communication and   *)
(* the tests build it; a NetworkMessage is its kind and sequence number.   *)
(***************************************************************************)
\* CommunicationChannel::new
CommunicationChannelNew == [connected |-> FALSE, queue |-> <<>>, sequence_counter |-> 0]

\* send without the test of connected
send_unchecked(channel, message) ==
    [res |-> "Ok", channel |-> [channel EXCEPT !.queue = Append(@, message)]]

\* CommunicationChannel::send (on a queue with room)
send(channel, message) ==
    IF ~channel.connected THEN [res |-> "NetworkError", channel |-> channel]
    ELSE [res |-> "Ok", channel |-> [channel EXCEPT !.queue = Append(@, message)]]

\* CommunicationChannel::receive (on a queue that holds a message)
receive(channel) ==
    IF ~channel.connected
    THEN [res |-> "NetworkError", message |-> <<>>, channel |-> channel]
    ELSE [res |-> "Ok", message |-> <<Head(channel.queue)>>,
          channel |-> [channel EXCEPT !.queue = Tail(@)]]

\* CommunicationChannel::receive_timeout: an empty queue runs into the timeout
receive_timeout(channel) ==
    IF ~channel.connected
    THEN [res |-> "NetworkError", message |-> <<>>, channel |-> channel]
    ELSE IF channel.queue = <<>>
         THEN [res |-> "Timeout", message |-> <<>>, channel |-> channel]
    ELSE [res |-> "Ok", message |-> <<Head(channel.queue)>>,
          channel |-> [channel EXCEPT !.queue = Tail(@)]]

\* CommunicationChannel::connect
connect(channel) == [channel EXCEPT !.connected = TRUE]

\* CommunicationChannel::disconnect
disconnect(channel) == [channel EXCEPT !.connected = FALSE]

\* CommunicationChannel::send_heartbeat: the counter moves before the send
send_heartbeat(channel) ==
    send([channel EXCEPT !.sequence_counter = @ + 1],
         [kind |-> "Heartbeat", sequence |-> channel.sequence_counter])

(***************************************************************************)
(* src/multi_party/share.rs.  A DataShare is its position in the list      *)
(* handed to distribute_shares; the returned map is a function of the      *)
(* server ids below num_servers, a server without an entry holding <<>>.   *)
(* `iterations` is the parity of the while-loop iterations taken so far,   *)
(* so that an iteration is a step even when it leaves current_server and   *)
(* current_weight as they were.                                            *)
(***************************************************************************)
\* ShareManager::new, before a call of distribute_shares on `shares` shares
ShareManagerNew(distribution, num_servers, shares) ==
    [distribution |-> distribution, num_servers |-> num_servers, shares |-> shares,
     pc |-> "new", i |-> 0, current_server |-> 0, current_weight |-> 0, iterations |-> 0,
     assigned |-> [sv \in 0..(num_servers - 1) |-> <<>>]]

\* distribution.entry(server_id).or_insert_with(Vec::new).push(share)
entry_push(assigned, server_id, share) ==
    [assigned EXCEPT ![server_id] = Append(@, share)]

\* the inner loop of Redundant: for j in 0..redundancy_factor
RECURSIVE RedundantLoop(_, _, _, _)
RedundantLoop(manager, i, j, assigned) ==
    IF j >= manager.distribution.redundancy_factor THEN assigned
    ELSE RedundantLoop(manager, i, j + 1,
                       entry_push(assigned, (i + j) % manager.num_servers, i))

\* the loop over the shares of Even, Weighted and Redundant
RECURSIVE EnumerateLoop(_, _, _)
EnumerateLoop(manager, i, assigned) ==
    IF i >= manager.shares THEN assigned
    ELSE IF manager.distribution.kind = "Even"
         THEN EnumerateLoop(manager, i + 1,
                            entry_push(assigned, i % manager.num_servers, i))
    ELSE IF manager.distribution.kind = "Weighted"
         THEN EnumerateLoop(manager, i + 1,
                            entry_push(assigned, (i * 2) % manager.num_servers, i))
    ELSE EnumerateLoop(manager, i + 1, RedundantLoop(manager, i, 0, assigned))

(***************************************************************************)
(* src/multi_party/crypto.rs.  `drawn` holds what rng.gen_range returns,   *)
(* one draw a share.                                                       *)
(***************************************************************************)
\* multi_party::crypto::SecretShare::new
CryptoSecretShareNew(id, value, coefficient, modulus) ==
    [id |-> id, value |-> value, coefficient |-> coefficient, modulus |-> modulus]

\* multi_party::crypto::ShamirSecretSharing::new, for an accepted threshold
CryptoShamirNew(threshold, num_shares, modulus) ==
    [threshold |-> threshold, num_shares |-> num_shares, modulus |-> modulus,
     generator |-> 5]

\* multi_party::crypto::ShamirSecretSharing::share_secret
crypto_share_secret(ss, secret, drawn) ==
    IF secret >= ss.modulus
    THEN [res |-> "InvalidConfiguration", shares |-> <<>>]
    ELSE [res |-> "Ok",
          shares |-> [k \in 1..ss.num_shares |->
                        CryptoSecretShareNew(k - 1, secret, drawn[k], ss.modulus)]]

\* no multi_party object in use
IdleMp ==
    [pc |-> "off", build |-> "release", last |-> [op |-> "none", arg |-> <<>>, res |-> "none"],
     server |-> MultiPartyServerNew(0, "Helper"), channel |-> CommunicationChannelNew,
     manager |-> ShareManagerNew([kind |-> "Even", redundancy_factor |-> 0, weights |-> <<>>],
                                 1, 0),
     crypto |-> [ss |-> CryptoShamirNew(2, 2, 3), secret |-> 0, shares |-> <<>>]]

(***************************************************************************)
(* The protocol state.                                                     *)
(***************************************************************************)
\* the moduli of the protocol runs (both accepted by FiniteField::new)
RunModuli == {5, 7}

Configs ==
    [field_modulus : RunModuli, num_users : 1..MaxUsers, noise_scale : 0..1]

\* the lengths of a contributor's data: the 2 features the phases assume, or not
DataLens == {Features - 1, Features}

\* the user_data handed to execute: up to MaxUsers records, built as the tests and
\* examples build them (UserData::new(i, data, i as u64)), all of one length
Inputs(cfg) ==
    UNION {{[i \in 1..md[1] |-> [user_id |-> i - 1, data |-> dat[i], seed |-> i - 1]] :
               dat \in [1..md[1] ->
                          [1..md[2] -> {FieldElementNew(v, cfg.field_modulus) :
                                           v \in 0..Min(MaxVal, cfg.field_modulus - 1)}]]} :
           md \in (0..MaxUsers) \X DataLens}

\* no field computation under way
IdleField ==
    [pc |-> "off", build |-> "release", a |-> NoElem, b |-> NoElem, c |-> NoElem,
     n |-> 0, op |-> "none", out |-> ErrElem("none"),
     va |-> <<>>, vb |-> <<>>, matrix |-> <<>>, vout |-> ErrSeq("none")]

IdleShamir ==
    [pc |-> "off", ss |-> [threshold |-> 2, num_shares |-> 3, modulus |-> 2],
     build |-> "release", s1 |-> 0, s2 |-> 0, k |-> 0,
     shares_a |-> <<>>, shares_b |-> <<>>, cur |-> <<>>, op |-> "none",
     picked |-> <<>>, out |-> ErrElem("none")]

\* OfflinePhase holds no data between calls; these are the locals of its functions
NoAux == [permutation_matrix |-> <<>>, masks |-> <<>>, noise_vector |-> <<>>]

\* OnlinePhase::new: field_operations 0 (user_data .. randomized_shares are the
\* locals of execute)
NewOnline ==
    [field_operations |-> 0, user_data |-> <<>>, user_shares |-> <<>>,
     shuffled_shares |-> <<>>, randomized_shares |-> <<>>]

NoResult == [tag |-> "None", val |-> <<>>, err |-> "", field_operations |-> 0]

NoLog == [id \in 0..2 |-> {}]

Logged(id, entry) == [log EXCEPT ![id] = @ \cup entry]

ReceiveEntries ==
    {"receive_permutation_shares", "receive_mask_shares", "receive_noise_shares"}

\* a `?` that returns the error e from execute
Fail(e) ==
    /\ pc' = "done"
    /\ result' = [tag |-> "Err", val |-> <<>>, err |-> e, field_operations |-> 0]

(***************************************************************************)
(* Spec: ToyProtocol::execute, offline phase then online phase.            *)
(***************************************************************************)
Init ==
    /\ field = IdleField
    /\ shamir = IdleShamir
    /\ config \in Configs
    /\ servers = NewServers
    /\ pc = "idle"
    /\ aux = NoAux
    /\ online = NewOnline
    /\ result = NoResult
    /\ log = NoLog
    /\ runs = 0
    /\ mp = IdleMp

\* ToyProtocol::execute is called: self.offline_phase.execute(&mut self.servers)
Execute ==
    /\ pc = "idle"
    /\ pc' = "offline_permutation"
    /\ UNCHANGED <<mp, runs, field, shamir, config, servers, aux, online, result, log>>

\* generate_shuffle_correlation: servers.get_mut(&0), generate_permutation_matrix
GeneratePermutationMatrix ==
    /\ pc = "offline_permutation"
    /\ IF 0 \notin DOMAIN servers
       THEN Fail("ServerNotFound") /\ UNCHANGED aux
       ELSE /\ \E permutation \in ShuffleOutcomes(config.num_users) :
                  aux' = [aux EXCEPT !.permutation_matrix =
                                        generate_permutation_matrix(config, permutation)]
            /\ pc' = "offline_masks"
            /\ UNCHANGED result
    /\ UNCHANGED <<mp, runs, field, shamir, config, servers, online, log>>

\* generate_shuffle_correlation: generate_user_masks
GenerateUserMasks ==
    /\ pc = "offline_masks"
    /\ \E drawn \in [1..config.num_users ->
                        [1..Features -> RandRange(config.field_modulus)]] :
          aux' = [aux EXCEPT !.masks = generate_user_masks(config, drawn)]
    /\ pc' = "offline_share_permutation"
    /\ UNCHANGED <<mp, runs, field, shamir, config, servers, online, result, log>>

\* generate_shuffle_correlation: share_permutation_matrix, then
\* auxiliary_server.store_permutation_shares
SharePermutationMatrix ==
    /\ pc = "offline_share_permutation"
    /\ \E drawn \in CoefficientDraws(config.num_users, config.num_users,
                                     config.field_modulus) :
          LET r == share_permutation_matrix(SchemeOf(config), aux.permutation_matrix,
                                            drawn)
          IN IF ~IsOk(r)
             THEN Fail(r.err) /\ UNCHANGED <<servers, log>>
             ELSE /\ servers' = [servers EXCEPT ![0] = store_permutation_shares(@, r.val)]
                  /\ log' = Logged(0, {"store_permutation_shares"})
                  /\ pc' = "offline_share_masks"
                  /\ UNCHANGED result
    /\ UNCHANGED <<mp, runs, field, shamir, config, aux, online>>

\* generate_shuffle_correlation: share_user_masks, then
\* auxiliary_server.store_mask_shares; the function returns
ShareUserMasks ==
    /\ pc = "offline_share_masks"
    /\ \E drawn \in CoefficientDraws(config.num_users, Features, config.field_modulus) :
          LET r == share_user_masks(SchemeOf(config), aux.masks, drawn)
          IN IF ~IsOk(r)
             THEN Fail(r.err) /\ UNCHANGED <<servers, log>>
             ELSE /\ servers' = [servers EXCEPT ![0] = store_mask_shares(@, r.val)]
                  /\ log' = Logged(0, {"store_mask_shares"})
                  /\ pc' = "offline_noise"
                  /\ UNCHANGED result
    /\ aux' = NoAux
    /\ UNCHANGED <<mp, runs, field, shamir, config, online>>

\* generate_dp_correlation: servers.get_mut(&0), generate_dp_noise
GenerateDpNoise ==
    /\ pc = "offline_noise"
    /\ IF 0 \notin DOMAIN servers
       THEN Fail("ServerNotFound") /\ UNCHANGED aux
       ELSE /\ \E magnitudes \in [1..config.num_users -> 0..MaxRand] :
                  aux' = [aux EXCEPT !.noise_vector = generate_dp_noise(config, magnitudes)]
            /\ pc' = "offline_share_noise"
            /\ UNCHANGED result
    /\ UNCHANGED <<mp, runs, field, shamir, config, servers, online, log>>

\* generate_dp_correlation: share_noise_vector, then
\* auxiliary_server.store_noise_shares; the function returns
ShareNoiseVector ==
    /\ pc = "offline_share_noise"
    /\ \E drawn \in [1..config.num_users -> [1..1 -> RandRange(config.field_modulus)]] :
          LET r == share_noise_vector(SchemeOf(config), aux.noise_vector, drawn)
          IN IF ~IsOk(r)
             THEN Fail(r.err) /\ UNCHANGED <<servers, log>>
             ELSE /\ servers' = [servers EXCEPT ![0] = store_noise_shares(@, r.val)]
                  /\ log' = Logged(0, {"store_noise_shares"})
                  /\ pc' = "offline_distribute"
                  /\ UNCHANGED result
    /\ aux' = NoAux
    /\ UNCHANGED <<mp, runs, field, shamir, config, online>>

\* the loop body of distribute_shares for one server: the three receive_ calls
ReceiveAll(server, permutation_shares, mask_shares, noise_shares) ==
    receive_noise_shares(
        receive_mask_shares(
            receive_permutation_shares(server, permutation_shares),
            mask_shares),
        noise_shares)

\* OfflinePhase::distribute_shares: the auxiliary server's three stores, cloned
\* to each of the servers 1 and 2 that is present
distribute_shares(svs) ==
    [id \in DOMAIN svs |->
        IF id \in 1..2
        THEN ReceiveAll(svs[id], svs[0].permutation_shares, svs[0].mask_shares,
                        svs[0].noise_shares)
        ELSE svs[id]]

\* OfflinePhase::distribute_shares; then offline_phase.execute returns and
\* ToyProtocol::execute calls self.online_phase.execute
DistributeShares ==
    /\ pc = "offline_distribute"
    /\ IF 0 \notin DOMAIN servers
       THEN Fail("ServerNotFound") /\ UNCHANGED <<servers, log>>
       ELSE /\ servers' = distribute_shares(servers)
            /\ log' = [id \in 0..2 |->
                          IF id \in 1..2 /\ id \in DOMAIN servers
                          THEN log[id] \cup ReceiveEntries ELSE log[id]]
            /\ pc' = "online_submissions"
            /\ UNCHANGED result
    /\ UNCHANGED <<mp, runs, field, shamir, config, aux, online>>

(***************************************************************************)
(* OnlinePhase::execute, step by step.  user_data is the argument of       *)
(* execute; nothing reads it before process_user_submissions, where the    *)
(* model draws it.                                                         *)
(***************************************************************************)
Counted(ops) == [online EXCEPT !.field_operations = @ + ops]

\* OnlinePhase::process_user_submissions
ProcessUserSubmissions ==
    /\ pc = "online_submissions"
    /\ \E user_data \in Inputs(config) :
          LET r == process_user_submissions(config, user_data)
          IN IF ~IsOk(r)
             THEN /\ Fail(r.err)
                  /\ online' = [Counted(r.ops) EXCEPT !.user_data = user_data]
             ELSE /\ online' = [Counted(r.ops) EXCEPT !.user_data = user_data,
                                                      !.user_shares = r.val]
                  /\ pc' = "online_shuffle"
                  /\ UNCHANGED result
    /\ UNCHANGED <<mp, runs, field, shamir, config, servers, aux, log>>

\* OnlinePhase::silent_shuffle
SilentShuffle ==
    /\ pc = "online_shuffle"
    /\ LET r == silent_shuffle(config, servers, online.user_shares)
       IN IF ~IsOk(r)
          THEN Fail(r.err) /\ online' = Counted(r.ops)
          ELSE /\ online' = [Counted(r.ops) EXCEPT !.shuffled_shares = r.val]
               /\ pc' = "online_randomization"
               /\ UNCHANGED result
    /\ UNCHANGED <<mp, runs, field, shamir, config, servers, aux, log>>

\* OnlinePhase::silent_randomization
SilentRandomization ==
    /\ pc = "online_randomization"
    /\ LET r == silent_randomization(config, servers, online.shuffled_shares)
       IN /\ servers' = r.servers
          /\ IF ~IsOk(r.res)
             THEN Fail(r.res.err) /\ online' = Counted(r.res.ops)
             ELSE /\ online' = [Counted(r.res.ops) EXCEPT !.randomized_shares = r.res.val]
                  /\ pc' = "online_reconstruct"
                  /\ UNCHANGED result
    /\ UNCHANGED <<mp, runs, field, shamir, config, aux, log>>

\* OnlinePhase::reconstruct_result; then execute returns Ok(ProtocolResult) with
\* stats.field_operations = self.online_phase.field_operations()
ReconstructResult ==
    /\ pc = "online_reconstruct"
    /\ LET r == reconstruct_result(config, servers)
       IN IF ~IsOk(r)
          THEN Fail(r.err) /\ online' = Counted(r.ops)
          ELSE /\ online' = Counted(r.ops)
               /\ pc' = "done"
               /\ result' = [tag |-> "Ok", val |-> r.val, err |-> "",
                             field_operations |-> online.field_operations + r.ops]
    /\ UNCHANGED <<mp, runs, field, shamir, config, servers, aux, log>>

Next ==
    \/ Execute
    \/ GeneratePermutationMatrix
    \/ GenerateUserMasks
    \/ SharePermutationMatrix
    \/ ShareUserMasks
    \/ GenerateDpNoise
    \/ ShareNoiseVector
    \/ DistributeShares
    \/ ProcessUserSubmissions
    \/ SilentShuffle
    \/ SilentRandomization
    \/ ReconstructResult

Spec == Init /\ [][Next]_vars

(***************************************************************************)
(* SpecRepeat: ToyProtocol::execute called again on the instance once a    *)
(* call has returned.  The instance keeps its servers and its OnlinePhase  *)
(* (field_operations); the locals of execute are new.                      *)
(***************************************************************************)
ExecuteAgain ==
    /\ pc = "done"
    /\ runs + 1 < MaxRuns
    /\ runs' = runs + 1
    /\ pc' = "offline_permutation"
    /\ online' = [NewOnline EXCEPT !.field_operations = online.field_operations]
    /\ result' = NoResult
    /\ log' = NoLog
    /\ UNCHANGED <<mp, field, shamir, config, servers, aux>>

NextRepeat ==
    \/ Next
    \/ ExecuteAgain

SpecRepeat == Init /\ [][NextRepeat]_vars

(***************************************************************************)
(* SpecShamir                                                              *)
(***************************************************************************)
InitShamir ==
    /\ field = IdleField
    /\ ShamirInit
    /\ config = [field_modulus |-> shamir.ss.modulus, num_users |-> 1, noise_scale |-> 0]
    /\ servers = NewServers
    /\ pc = "idle"
    /\ aux = NoAux
    /\ online = NewOnline
    /\ result = NoResult
    /\ log = NoLog
    /\ runs = 0
    /\ mp = IdleMp

NextShamir ==
    \/ ShareFirst
    \/ AddShares
    \/ AddSharesOfCaller
    \/ MultiplyByConstant
    \/ Reconstruct

SpecShamir == InitShamir /\ [][NextShamir]_vars

(***************************************************************************)
(* SpecField: the field operations applied to bounded elements.            *)
(***************************************************************************)
\* the primes an unsigned word holds
WordPrimes == {p \in 2..(Word - 1) : \A d \in 2..(p - 1) : p % d # 0}

\* the moduli handed to FieldElement::new, which tests nothing: the primes of the
\* word and the small numbers from 2 on, prime or not
FieldModuli == WordPrimes \cup 2..(MaxModulus + 2)

\* the values drawn over modulus p: the ones near 0 and the ones near p
FieldSamples(p) == {v \in 0..(p - 1) : v <= MaxVal \/ v >= p - MaxVal}

\* either three elements are at hand (a and c over one modulus, b over the same
\* modulus or over another, small one), or a modulus n, any word, is about to be
\* handed to a constructor
InitField ==
    /\ \/ \E bd \in Builds, p \in FieldModuli :
            \E q \in {m \in FieldModuli : m = p \/ m <= 3} :
              \E x \in FieldSamples(p), y \in FieldSamples(q), z \in FieldSamples(p) :
                field = [pc |-> "new", build |-> bd,
                         a |-> FieldElementNew(x, p), b |-> FieldElementNew(y, q),
                         c |-> FieldElementNew(z, p), n |-> p,
                         op |-> "none", out |-> ErrElem("none"),
                         va |-> <<>>, vb |-> <<>>, matrix |-> <<>>,
                         vout |-> ErrSeq("none")]
       \/ \E bd \in Builds, m \in 0..(Word - 1) :
            field = [IdleField EXCEPT !.pc = "construct", !.build = bd, !.n = m]
    /\ shamir = IdleShamir
    /\ config = [field_modulus |-> field.n, num_users |-> 1, noise_scale |-> 0]
    /\ servers = NewServers
    /\ pc = "idle"
    /\ aux = NoAux
    /\ online = NewOnline
    /\ result = NoResult
    /\ log = NoLog
    /\ runs = 0
    /\ mp = IdleMp

\* the record of the operation op and of its value
Computed(op, out) == [field EXCEPT !.pc = "done", !.op = op, !.out = out]

\* a.add(&b)
FieldAdd ==
    /\ field.pc = "new"
    /\ field' = Computed("add", add_w(field.a, field.b, field.build))
    /\ UNCHANGED <<mp, runs, shamir, config, servers, pc, aux, online, result, log>>

\* a.sub(&b)
FieldSub ==
    /\ field.pc = "new"
    /\ field' = Computed("sub", sub(field.a, field.b))
    /\ UNCHANGED <<mp, runs, shamir, config, servers, pc, aux, online, result, log>>

\* a.mul(&b)
FieldMul ==
    /\ field.pc = "new"
    /\ field' = Computed("mul", mul(field.a, field.b))
    /\ UNCHANGED <<mp, runs, shamir, config, servers, pc, aux, online, result, log>>

\* a.div(&b)
FieldDiv ==
    /\ field.pc = "new"
    /\ field' = Computed("div", div_w(field.a, field.b, field.build))
    /\ UNCHANGED <<mp, runs, shamir, config, servers, pc, aux, online, result, log>>

\* a.inverse()
FieldInverse ==
    /\ field.pc = "new"
    /\ field' = Computed("inverse", inverse_w(field.a, field.build))
    /\ UNCHANGED <<mp, runs, shamir, config, servers, pc, aux, online, result, log>>

\* -a
FieldNeg ==
    /\ field.pc = "new"
    /\ field' = Computed("neg", Ok(neg(field.a)))
    /\ UNCHANGED <<mp, runs, shamir, config, servers, pc, aux, online, result, log>>

\* a.pow(exponent)
FieldPow ==
    /\ field.pc = "new"
    /\ \E exponent \in 0..(MaxVal + 1) :
          field' = Computed("pow", pow(field.a, exponent))
    /\ UNCHANGED <<mp, runs, shamir, config, servers, pc, aux, online, result, log>>

\* FieldElement::random(p): gen_range(0..p), then FieldElement::new
FieldRandom ==
    /\ field.pc = "new"
    /\ \E value \in FieldSamples(field.n) :
          field' = Computed("random", Ok(FieldElementNew(value, field.n)))
    /\ UNCHANGED <<mp, runs, shamir, config, servers, pc, aux, online, result, log>>

\* FieldElement::new(value, p) for the word values near 0 and near the top
FieldNew ==
    /\ field.pc = "new"
    /\ \E value \in FieldSamples(Word) :
          field' = Computed("new", Ok(FieldElementNew(value, field.n)))
    /\ UNCHANGED <<mp, runs, shamir, config, servers, pc, aux, online, result, log>>

\* FiniteField::new(n)
NewFiniteField ==
    /\ field.pc = "construct"
    /\ field' = Computed("FiniteField::new", FiniteFieldNew(field.n, field.build))
    /\ UNCHANGED <<mp, runs, shamir, config, servers, pc, aux, online, result, log>>

\* ShamirSecretSharing::new(threshold, num_shares, n)
NewShamirSecretSharing ==
    /\ field.pc = "construct"
    /\ \E threshold \in 1..3, num_shares \in 2..3 :
          field' = Computed("ShamirSecretSharing::new",
                            ShamirSecretSharingNew(threshold, num_shares, field.n,
                                                   field.build))
    /\ UNCHANGED <<mp, runs, shamir, config, servers, pc, aux, online, result, log>>

\* ToyProtocol::new(config), config.field_modulus being n
NewToyProtocol ==
    /\ field.pc = "construct"
    /\ field' = Computed("ToyProtocol::new", ToyProtocolNew(config, field.build))
    /\ UNCHANGED <<mp, runs, shamir, config, servers, pc, aux, online, result, log>>

NextField ==
    \/ NewFiniteField
    \/ NewShamirSecretSharing
    \/ NewToyProtocol
    \/ FieldAdd
    \/ FieldSub
    \/ FieldMul
    \/ FieldDiv
    \/ FieldInverse
    \/ FieldNeg
    \/ FieldPow
    \/ FieldRandom
    \/ FieldNew

\* ToyConfig::default().field_modulus, 0xFFFFFFFFFFFFFFC5: the largest prime of
\* the word
DefaultModulus == CHOOSE p \in WordPrimes : \A q \in WordPrimes : q <= p

SpecField == InitField /\ [][NextField]_vars

(***************************************************************************)
(* SpecVector: the vector functions of FiniteField applied to bounded       *)
(* vectors and matrices over the field of a run modulus.                   *)
(***************************************************************************)
\* the vectors over modulus p of up to MaxLen elements
Vectors(p) ==
    UNION {[1..len -> {FieldElementNew(x, p) : x \in 0..MaxRand}] : len \in 0..MaxLen}

\* the matrices over modulus p of up to MaxLen rows, each row a vector of any
\* length within the bound
Matrices(p) == UNION {[1..rows -> Vectors(p)] : rows \in 0..MaxLen}

InitVector ==
    /\ \E p \in RunModuli : field = [IdleField EXCEPT !.pc = "vectors", !.n = p]
    /\ shamir = IdleShamir
    /\ config = [field_modulus |-> field.n, num_users |-> 1, noise_scale |-> 0]
    /\ servers = NewServers
    /\ pc = "idle"
    /\ aux = NoAux
    /\ online = NewOnline
    /\ result = NoResult
    /\ log = NoLog
    /\ runs = 0
    /\ mp = IdleMp

\* field.vector_add(&a, &b)
VectorAdd ==
    /\ field.pc = "vectors"
    /\ \E a \in Vectors(field.n), b \in Vectors(field.n) :
          field' = [field EXCEPT !.pc = "done", !.op = "vector_add", !.va = a, !.vb = b,
                                 !.vout = vector_add(a, b)]
    /\ UNCHANGED <<mp, runs, shamir, config, servers, pc, aux, online, result, log>>

\* field.vector_sub(&a, &b)
VectorSub ==
    /\ field.pc = "vectors"
    /\ \E a \in Vectors(field.n), b \in Vectors(field.n) :
          field' = [field EXCEPT !.pc = "done", !.op = "vector_sub", !.va = a, !.vb = b,
                                 !.vout = vector_sub(a, b)]
    /\ UNCHANGED <<mp, runs, shamir, config, servers, pc, aux, online, result, log>>

\* field.vector_mul(&a, &b)
VectorMul ==
    /\ field.pc = "vectors"
    /\ \E a \in Vectors(field.n), b \in Vectors(field.n) :
          field' = [field EXCEPT !.pc = "done", !.op = "vector_mul", !.va = a, !.vb = b,
                                 !.vout = vector_mul(a, b)]
    /\ UNCHANGED <<mp, runs, shamir, config, servers, pc, aux, online, result, log>>

\* field.matrix_vector_mul(&matrix, &vector)
MatrixVectorMul ==
    /\ field.pc = "vectors"
    /\ \E matrix \in Matrices(field.n), vector \in Vectors(field.n) :
          field' = [field EXCEPT !.pc = "done", !.op = "matrix_vector_mul",
                                 !.matrix = matrix, !.vb = vector,
                                 !.vout = matrix_vector_mul(field.n, matrix, vector)]
    /\ UNCHANGED <<mp, runs, shamir, config, servers, pc, aux, online, result, log>>

NextVector ==
    \/ VectorAdd
    \/ VectorSub
    \/ VectorMul
    \/ MatrixVectorMul

SpecVector == InitVector /\ [][NextVector]_vars

(***************************************************************************)
(* SpecOnline: the public entry points used directly.  A caller builds the *)
(* server map, hands shares to Server::receive_*, and calls                *)
(* OnlinePhase::execute(servers, user_data).                               *)
(***************************************************************************)
\* the server maps a caller hands to OnlinePhase::execute: server 0 and at least
\* one of the servers 1 and 2
ServerMaps ==
    {[id \in D |-> NewServers[id]] : D \in {{0, 1, 2}, {0, 1}, {0, 2}}}

\* the coefficient draws of a dealer that draws the same coefficient c throughout
UniformDraws(rows, cols, c) == [i \in 1..rows |-> [j \in 1..cols |-> <<c>>]]

InitOnline ==
    /\ field = IdleField
    /\ shamir = IdleShamir
    /\ config \in Configs
    /\ servers \in ServerMaps
    /\ pc = "setup"
    /\ aux = NoAux
    /\ online = NewOnline
    /\ result = NoResult
    /\ log = NoLog
    /\ runs = 0
    /\ mp = IdleMp

\* the three Server::receive_* calls on server id, with the shares a dealer makes
\* by share_permutation_matrix, share_user_masks and share_noise_vector
Deliver ==
    /\ pc = "setup"
    /\ \E id \in (DOMAIN servers) \cap 1..2 :
          /\ ~(ReceiveEntries \subseteq log[id])
          /\ \E permutation \in ShuffleOutcomes(config.num_users),
                c \in RandRange(config.field_modulus),
                magnitude \in 0..MaxRand :
                LET n == config.num_users
                    ps == share_permutation_matrix(
                              SchemeOf(config),
                              generate_permutation_matrix(config, permutation),
                              UniformDraws(n, n, c))
                    ms == share_user_masks(
                              SchemeOf(config),
                              generate_user_masks(config, [i \in 1..n |->
                                                              [k \in 1..Features |-> c]]),
                              UniformDraws(n, Features, c))
                    ns == share_noise_vector(
                              SchemeOf(config),
                              generate_dp_noise(config, [i \in 1..n |-> magnitude]),
                              [i \in 1..n |-> <<c>>])
                IN /\ IsOk(ps) /\ IsOk(ms) /\ IsOk(ns)
                   /\ servers' = [servers EXCEPT
                                     ![id] = ReceiveAll(@, ps.val, ms.val, ns.val)]
                   /\ log' = Logged(id, ReceiveEntries)
    /\ UNCHANGED <<mp, runs, field, shamir, config, pc, aux, online, result>>

\* OnlinePhase::execute is called; it checks nothing before its first step
StartOnline ==
    /\ pc = "setup"
    /\ pc' = "online_submissions"
    /\ UNCHANGED <<mp, runs, field, shamir, config, servers, aux, online, result, log>>

NextOnline ==
    \/ Deliver
    \/ StartOnline
    \/ ProcessUserSubmissions
    \/ SilentShuffle
    \/ SilentRandomization
    \/ ReconstructResult

SpecOnline == InitOnline /\ [][NextOnline]_vars

(***************************************************************************)
(* SpecOffline: OfflinePhase::execute called on a server map a caller      *)
(* built, by an OfflinePhase that OfflinePhase::new got a field and a      *)
(* sharing scheme for: config.field_modulus is the modulus of the field,   *)
(* shamir.ss the scheme.                                                   *)
(***************************************************************************)
\* OfflinePhase::execute as one function of the servers and of what its three
\* sharing calls return: each `?` returns the error with the servers as they are
\* then
OfflineExecute(svs, permutation_shares, mask_shares, noise_shares) ==
    LET stored1 == [svs EXCEPT ![0] = store_permutation_shares(@, permutation_shares.val)]
        stored2 == [stored1 EXCEPT ![0] = store_mask_shares(@, mask_shares.val)]
        stored3 == [stored2 EXCEPT ![0] = store_noise_shares(@, noise_shares.val)]
    IN IF 0 \notin DOMAIN svs THEN [res |-> ErrSeq("ServerNotFound"), servers |-> svs]
       ELSE IF ~IsOk(permutation_shares)
            THEN [res |-> ErrSeq(permutation_shares.err), servers |-> svs]
       ELSE IF ~IsOk(mask_shares)
            THEN [res |-> ErrSeq(mask_shares.err), servers |-> stored1]
       ELSE IF ~IsOk(noise_shares)
            THEN [res |-> ErrSeq(noise_shares.err), servers |-> stored2]
       ELSE [res |-> Ok(<<>>), servers |-> distribute_shares(stored3)]

\* the server maps a caller hands to OfflinePhase::execute: with or without
\* server 0, which is of either role
OfflineServerMaps ==
    {[id \in D |-> ServerNew(id, IF id = 0 THEN role ELSE "Computational")] :
        D \in {{0, 1, 2}, {0, 1}, {1, 2}}, role \in {"Auxiliary", "Computational"}}

InitOffline ==
    /\ field = IdleField
    /\ shamir \in {[IdleShamir EXCEPT !.ss = [threshold |-> 2, num_shares |-> 3,
                                             modulus |-> p]] : p \in RunModuli}
    /\ config \in Configs
    /\ servers \in OfflineServerMaps
    /\ pc = "setup"
    /\ aux = NoAux
    /\ online = NewOnline
    /\ result = NoResult
    /\ log = NoLog
    /\ runs = 0
    /\ mp = IdleMp

\* OfflinePhase::execute(servers), with the draws of the call: the shuffle
\* outcome, the random elements (all c) and the noise magnitude
RunOffline ==
    /\ pc = "setup"
    /\ \E permutation \in ShuffleOutcomes(config.num_users),
          c \in RandRange(config.field_modulus),
          magnitude \in 0..MaxRand :
          LET n == config.num_users
          IN \E permutation_shares \in
                    {share_permutation_matrix(
                         shamir.ss, generate_permutation_matrix(config, permutation),
                         UniformDraws(n, n, c))},
                mask_shares \in
                    {share_user_masks(
                         shamir.ss,
                         generate_user_masks(config, [i \in 1..n |->
                                                         [k \in 1..Features |-> c]]),
                         UniformDraws(n, Features, c))},
                noise_shares \in
                    {share_noise_vector(
                         shamir.ss, generate_dp_noise(config, [i \in 1..n |-> magnitude]),
                         [i \in 1..n |-> <<c>>])} :
                \E r \in {OfflineExecute(servers, permutation_shares, mask_shares,
                                         noise_shares)} :
                   /\ servers' = r.servers
                   /\ result' = [tag |-> r.res.tag, val |-> <<>>, err |-> r.res.err,
                                 field_operations |-> 0]
    /\ pc' = "done"
    /\ UNCHANGED <<mp, runs, field, shamir, config, aux, online, log>>

NextOffline ==
    \/ Deliver
    \/ RunOffline

SpecOffline == InitOffline /\ [][NextOffline]_vars

(***************************************************************************)
(* SpecMpServer: one MultiPartyServer, created by MultiPartyServer::new,   *)
(* initialized or not, receiving lists of shares.                          *)
(***************************************************************************)
\* the lists of DataShare handed to receive_shares
ShareLists == UNION {[1..len -> 0..1] : len \in 0..MaxLen}

InitMpServer ==
    /\ field = IdleField
    /\ shamir = IdleShamir
    /\ config \in {[field_modulus |-> 5, num_users |-> 1, noise_scale |-> 0]}
    /\ servers = NewServers
    /\ pc = "idle"
    /\ aux = NoAux
    /\ online = NewOnline
    /\ result = NoResult
    /\ log = NoLog
    /\ runs = 0
    /\ \E id \in 0..2, role \in Roles, bd \in Builds :
          mp = [IdleMp EXCEPT !.pc = "server", !.build = bd,
                              !.server = MultiPartyServerNew(id, role)]

\* server.initialize(): state Online, round 0, shares cleared; then
\* ThresholdEncryption::initialize, whose modular_exponentiation multiplies in
\* u64 without widening: a build with overflow checks panics for most keys drawn
MpInitialize ==
    /\ mp.pc = "server"
    /\ \E outcome \in (IF mp.build = "debug" THEN {"panic", "Ok"} ELSE {"Ok"}) :
          mp' = [mp EXCEPT
                    !.pc = IF outcome = "panic" THEN "panic" ELSE "server",
                    !.last = [op |-> "initialize", arg |-> <<>>, res |-> outcome],
                    !.server = [@ EXCEPT !.state = "Online", !.round_number = 0,
                                         !.shares = <<>>]]
    /\ UNCHANGED <<runs, field, shamir, config, servers, pc, aux, online, result, log>>

\* server.receive_shares(shares)
MpReceiveShares ==
    /\ mp.pc = "server"
    /\ \E shares \in ShareLists :
          /\ Len(mp.server.shares) + Len(shares) <= MaxHeld
          /\ \E r \in {receive_shares(mp.server, shares)} :
                mp' = [mp EXCEPT !.last = [op |-> "receive_shares", arg |-> shares,
                                           res |-> r.res],
                                 !.server = r.server]
    /\ UNCHANGED <<runs, field, shamir, config, servers, pc, aux, online, result, log>>

NextMpServer ==
    \/ MpInitialize
    \/ MpReceiveShares

SpecMpServer == InitMpServer /\ [][NextMpServer]_vars

(***************************************************************************)
(* SpecChannel: one CommunicationChannel from its creation on.  A send on  *)
(* a full queue and a receive on an empty one wait, so they are not        *)
(* enabled then.                                                           *)
(***************************************************************************)
\* the messages a caller sends
Messages == {[kind |-> "Data", sequence |-> q] : q \in 0..1}

InitChannel ==
    /\ field = IdleField
    /\ shamir = IdleShamir
    /\ config \in {[field_modulus |-> 5, num_users |-> 1, noise_scale |-> 0]}
    /\ servers = NewServers
    /\ pc = "idle"
    /\ aux = NoAux
    /\ online = NewOnline
    /\ result = NoResult
    /\ log = NoLog
    /\ runs = 0
    /\ mp = [IdleMp EXCEPT !.pc = "channel"]

\* channel.connect()
ChannelConnect ==
    /\ mp.pc = "channel"
    /\ mp' = [mp EXCEPT !.last = [op |-> "connect", arg |-> <<>>, res |-> "Ok"],
                        !.channel = connect(@)]
    /\ UNCHANGED <<runs, field, shamir, config, servers, pc, aux, online, result, log>>

\* channel.disconnect()
ChannelDisconnect ==
    /\ mp.pc = "channel"
    /\ mp' = [mp EXCEPT !.last = [op |-> "disconnect", arg |-> <<>>, res |-> "Ok"],
                        !.channel = disconnect(@)]
    /\ UNCHANGED <<runs, field, shamir, config, servers, pc, aux, online, result, log>>

\* channel.send(message)
ChannelSend ==
    /\ mp.pc = "channel"
    /\ mp.channel.connected => Len(mp.channel.queue) < MaxQueue
    /\ \E message \in Messages :
          \E r \in {send(mp.channel, message)} :
             mp' = [mp EXCEPT !.last = [op |-> "send", arg |-> <<message>>, res |-> r.res],
                              !.channel = r.channel]
    /\ UNCHANGED <<runs, field, shamir, config, servers, pc, aux, online, result, log>>

\* channel.receive()
ChannelReceive ==
    /\ mp.pc = "channel"
    /\ mp.channel.connected => mp.channel.queue # <<>>
    /\ \E r \in {receive(mp.channel)} :
          mp' = [mp EXCEPT !.last = [op |-> "receive", arg |-> r.message, res |-> r.res],
                           !.channel = r.channel]
    /\ UNCHANGED <<runs, field, shamir, config, servers, pc, aux, online, result, log>>

\* channel.receive_timeout(duration)
ChannelReceiveTimeout ==
    /\ mp.pc = "channel"
    /\ \E r \in {receive_timeout(mp.channel)} :
          mp' = [mp EXCEPT !.last = [op |-> "receive_timeout", arg |-> r.message,
                                     res |-> r.res],
                           !.channel = r.channel]
    /\ UNCHANGED <<runs, field, shamir, config, servers, pc, aux, online, result, log>>

\* channel.send_heartbeat(source_id)
ChannelSendHeartbeat ==
    /\ mp.pc = "channel"
    /\ mp.channel.sequence_counter < MaxQueue
    /\ mp.channel.connected => Len(mp.channel.queue) < MaxQueue
    /\ \E r \in {send_heartbeat(mp.channel)} :
          mp' = [mp EXCEPT !.last = [op |-> "send_heartbeat", arg |-> <<>>, res |-> r.res],
                           !.channel = r.channel]
    /\ UNCHANGED <<runs, field, shamir, config, servers, pc, aux, online, result, log>>

NextChannel ==
    \/ ChannelConnect
    \/ ChannelDisconnect
    \/ ChannelSend
    \/ ChannelReceive
    \/ ChannelReceiveTimeout
    \/ ChannelSendHeartbeat

SpecChannel == InitChannel /\ [][NextChannel]_vars

(***************************************************************************)
(* SpecManager: one call of ShareManager::distribute_shares.  Even,        *)
(* Weighted and Redundant are one step; the Custom branch is followed      *)
(* statement by statement, its while loop one iteration a step.  The call  *)
(* runs on one thread without waiting, so a step that can be taken is      *)
(* taken: weak fairness of the next-state action.                          *)
(***************************************************************************)
Distributions ==
    {[kind |-> k, redundancy_factor |-> 0, weights |-> <<>>] : k \in {"Even", "Weighted"}}
    \cup {[kind |-> "Redundant", redundancy_factor |-> f, weights |-> <<>>] :
             f \in 1..MaxWeight}
    \cup {[kind |-> "Custom", redundancy_factor |-> 0, weights |-> w] :
             w \in UNION {[1..len -> 0..MaxWeight] : len \in 1..MaxServers}}

InitManager ==
    /\ field = IdleField
    /\ shamir = IdleShamir
    /\ config \in {[field_modulus |-> 5, num_users |-> 1, noise_scale |-> 0]}
    /\ servers = NewServers
    /\ pc = "idle"
    /\ aux = NoAux
    /\ online = NewOnline
    /\ result = NoResult
    /\ log = NoLog
    /\ runs = 0
    /\ \E distribution \in Distributions, num_servers \in 1..MaxServers,
          shares \in 0..MaxShares :
          mp = [IdleMp EXCEPT !.pc = "manager",
                              !.manager = ShareManagerNew(distribution, num_servers, shares)]

\* distribute_shares under Even, Weighted or Redundant
ManagerDistribute ==
    /\ mp.pc = "manager"
    /\ mp.manager.pc = "new"
    /\ mp.manager.distribution.kind # "Custom"
    /\ mp' = [mp EXCEPT !.manager.assigned = EnumerateLoop(mp.manager, 0, @),
                        !.manager.i = mp.manager.shares,
                        !.manager.pc = "done"]
    /\ UNCHANGED <<runs, field, shamir, config, servers, pc, aux, online, result, log>>

\* Custom: let mut current_server = 0; let mut current_weight = 0
CustomBegin ==
    /\ mp.pc = "manager"
    /\ mp.manager.pc = "new"
    /\ mp.manager.distribution.kind = "Custom"
    /\ mp' = [mp EXCEPT !.manager.current_server = 0,
                        !.manager.current_weight = 0,
                        !.manager.pc = "for"]
    /\ UNCHANGED <<runs, field, shamir, config, servers, pc, aux, online, result, log>>

\* Custom: weights[current_server] with current_server past the end of weights
CustomPanic ==
    /\ mp.pc = "manager"
    /\ mp.manager.pc = "for"
    /\ mp.manager.i < mp.manager.shares
    /\ mp.manager.current_server >= Len(mp.manager.distribution.weights)
    /\ mp' = [mp EXCEPT !.manager.pc = "panic"]
    /\ UNCHANGED <<runs, field, shamir, config, servers, pc, aux, online, result, log>>

\* Custom: one iteration of while current_weight >= weights[current_server]
CustomWhile ==
    /\ mp.pc = "manager"
    /\ mp.manager.pc = "for"
    /\ mp.manager.i < mp.manager.shares
    /\ mp.manager.current_server < Len(mp.manager.distribution.weights)
    /\ mp.manager.current_weight
          >= mp.manager.distribution.weights[mp.manager.current_server + 1]
    /\ mp' = [mp EXCEPT !.manager.current_server = (@ + 1) % mp.manager.num_servers,
                        !.manager.current_weight = 0,
                        !.manager.iterations = (@ + 1) % 2]
    /\ UNCHANGED <<runs, field, shamir, config, servers, pc, aux, online, result, log>>

\* Custom: the share is pushed to current_server once the while loop is left
CustomPush ==
    /\ mp.pc = "manager"
    /\ mp.manager.pc = "for"
    /\ mp.manager.i < mp.manager.shares
    /\ mp.manager.current_server < Len(mp.manager.distribution.weights)
    /\ mp.manager.current_weight
          < mp.manager.distribution.weights[mp.manager.current_server + 1]
    /\ mp' = [mp EXCEPT !.manager.assigned =
                             entry_push(@, mp.manager.current_server, mp.manager.i),
                        !.manager.current_weight = @ + 1,
                        !.manager.i = @ + 1]
    /\ UNCHANGED <<runs, field, shamir, config, servers, pc, aux, online, result, log>>

\* Custom: the shares are used up and the map is returned
CustomReturn ==
    /\ mp.pc = "manager"
    /\ mp.manager.pc = "for"
    /\ mp.manager.i >= mp.manager.shares
    /\ mp' = [mp EXCEPT !.manager.pc = "done"]
    /\ UNCHANGED <<runs, field, shamir, config, servers, pc, aux, online, result, log>>

NextManager ==
    \/ ManagerDistribute
    \/ CustomBegin
    \/ CustomPanic
    \/ CustomWhile
    \/ CustomPush
    \/ CustomReturn

SpecManager == InitManager /\ [][NextManager]_vars /\ WF_vars(NextManager)

(***************************************************************************)
(* SpecCrypto: a multi_party::crypto::ShamirSecretSharing scheme sharing   *)
(* secrets, each call with fresh draws.                                    *)
(***************************************************************************)
CryptoModuli == {3, 5}

\* what the generator can return over one call of share_secret
CryptoDraws(ss) == [1..ss.num_shares -> 0..(ss.modulus - 1)]

InitCrypto ==
    /\ field = IdleField
    /\ shamir = IdleShamir
    /\ config \in {[field_modulus |-> 5, num_users |-> 1, noise_scale |-> 0]}
    /\ servers = NewServers
    /\ pc = "idle"
    /\ aux = NoAux
    /\ online = NewOnline
    /\ result = NoResult
    /\ log = NoLog
    /\ runs = 0
    /\ \E num_shares \in 2..3, modulus \in CryptoModuli :
          \E threshold \in 2..num_shares :
             mp = [IdleMp EXCEPT !.pc = "crypto",
                                 !.crypto.ss = CryptoShamirNew(threshold, num_shares, modulus)]

\* ss.share_secret(secret)
CryptoShareSecret ==
    /\ mp.pc = "crypto"
    /\ \E secret \in 0..mp.crypto.ss.modulus, drawn \in CryptoDraws(mp.crypto.ss) :
          \E r \in {crypto_share_secret(mp.crypto.ss, secret, drawn)} :
             mp' = [mp EXCEPT !.last = [op |-> "share_secret", arg |-> <<secret>>,
                                        res |-> r.res],
                              !.crypto.secret = secret,
                              !.crypto.shares = r.shares]
    /\ UNCHANGED <<runs, field, shamir, config, servers, pc, aux, online, result, log>>

NextCrypto == CryptoShareSecret

SpecCrypto == InitCrypto /\ [][NextCrypto]_vars

(***************************************************************************)
(* The claims.                                                             *)
(***************************************************************************)
\* the values share number idx (1-based) of secret s can take over all draws of
\* the random coefficient
ShareValues(ss, s, idx) ==
    {share_secret(ss, FieldElementNew(s, ss.modulus), <<c>>).val[idx].value.value :
        c \in FieldRange(ss.modulus)}

\* C2: Shamir round-trip: reconstruct_secret on any 2 or 3 of the shares of
\* share_secret(s) returns exactly s.
C2_RoundTrip ==
    (shamir.pc = "done" /\ shamir.op = "share" /\ Len(shamir.picked) >= 2)
        => shamir.out = Ok(FieldElementNew(shamir.s1, shamir.ss.modulus))

\* C3: additive linearity: reconstruct_secret(add_shares(share_secret(s1),
\* share_secret(s2))) is s1 + s2 in the field.
C3_AddLinear ==
    (shamir.pc = "done" /\ shamir.op = "add" /\ shamir.picked = shamir.cur)
        => shamir.out = Ok(FieldElementNew(shamir.s1 + shamir.s2, shamir.ss.modulus))

\* C4: scalar linearity: reconstruct_secret(multiply_by_constant(share_secret(s), k))
\* is k * s in the field.
C4_ScalarLinear ==
    (shamir.pc = "done" /\ shamir.op = "mul" /\ shamir.picked = shamir.cur)
        => shamir.out = Ok(FieldElementNew(shamir.k * shamir.s1, shamir.ss.modulus))

\* C5: a single share reveals nothing: for the accepted modulus of the scheme, the
\* secret shared and any other secret, every share index takes the same set of
\* values over the draws of the random coefficient.
C5_SingleShareHidesSecret ==
    shamir.pc = "shared"
        => \A s \in FieldRange(shamir.ss.modulus), idx \in 1..shamir.ss.num_shares :
              ShareValues(shamir.ss, shamir.s1, idx) = ShareValues(shamir.ss, s, idx)

\* the rows of a matrix of field elements, as sequences of values
RowValues(matrix) == [i \in 1..Len(matrix) |-> [k \in 1..Len(matrix[i]) |-> matrix[i][k].value]]

\* the rows of the contributors' records, as sequences of field values
InputRows == RowValues([i \in 1..Len(online.user_data) |-> online.user_data[i].data])

\* how many times row r occurs in rows
Occurrences(rows, r) == Cardinality({i \in 1..Len(rows) : rows[i] = r})

SameMultiset(a, b) ==
    /\ Len(a) = Len(b)
    /\ \A i \in 1..Len(a) : Occurrences(a, a[i]) = Occurrences(b, a[i])

\* C1: with noise scale 0, when execute returns a result for the n configured
\* contributor records, the multiset of output vectors equals the multiset of
\* input vectors.
C1_OutputIsPermutation ==
    (/\ pc = "done"
     /\ result.tag = "Ok"
     /\ config.noise_scale = 0
     /\ Len(online.user_data) = config.num_users)
        => SameMultiset(InputRows, RowValues(result.val))

\* the share lists a server stores, one per shared element
StoredLists(server) ==
    {server.permutation_shares[i][j] :
        i \in 1..Len(server.permutation_shares), j \in 1..config.num_users}
    \cup {server.mask_shares[i][k] : i \in 1..Len(server.mask_shares), k \in 1..Features}
    \cup {server.noise_shares[i] : i \in 1..Len(server.noise_shares)}

\* server id stores every element of the n x n permutation, the n x 2 masks and
\* the n noise values, each as exactly one share, taken at point id + 1
HoldsOneShareEach(id) ==
    /\ Len(servers[id].permutation_shares) = config.num_users
    /\ Len(servers[id].mask_shares) = config.num_users
    /\ Len(servers[id].noise_shares) = config.num_users
    /\ \A shares \in StoredLists(servers[id]) :
          Len(shares) = 1 /\ shares[1].point.value = id + 1

\* C6: once the offline phase has distributed to a computational server, it holds
\* exactly one share of every shared element, the one at point 2 for server 1 and
\* at point 3 for server 2; and it never holds two shares of one element.
C6_OneSharePerElement ==
    \A id \in 1..2 :
        /\ \A shares \in StoredLists(servers[id]) : Len(shares) <= 1
        /\ (ReceiveEntries \subseteq log[id]) => HoldsOneShareEach(id)

\* the permutation shares a dealer can hand to a server, and none
PermutationShareStores ==
    {<<>>} \cup
    {share_permutation_matrix(SchemeOf(config),
                              generate_permutation_matrix(config, permutation),
                              UniformDraws(config.num_users, config.num_users, c)).val :
        permutation \in ShuffleOutcomes(config.num_users),
        c \in RandRange(config.field_modulus)}

\* server 2's final_result when the online steps run from the same submissions
\* with server 1's permutation shares replaced by alt
FinalResultOf2With(alt) ==
    LET svs == [servers EXCEPT ![1].permutation_shares = alt]
        shuffled == silent_shuffle(config, svs, online.user_shares)
    IN IF IsOk(shuffled)
       THEN silent_randomization(config, svs, shuffled.val).servers[2].final_result
       ELSE <<>>

\* C7: zero online communication: server 2's final_result is a function of its
\* own stores and the submissions only; changing server 1's shares never changes
\* it.
C7_NoCrossPartyFlow ==
    (/\ pc \in {"online_reconstruct", "done"}
     /\ {1, 2} \subseteq DOMAIN servers
     /\ servers[2].final_result # <<>>)
        => \A alt \in PermutationShareStores :
              FinalResultOf2With(alt) = servers[2].final_result

\* C8: offline-before-online barrier: while the delivery to a computational
\* server is not complete, no step of the online run past its entry is taken,
\* and a run that was started ends in an error.
C8_OfflineBeforeOnline ==
    (\E id \in (DOMAIN servers) \cap 1..2 : ~(ReceiveEntries \subseteq log[id]))
        => /\ pc \notin {"online_shuffle", "online_randomization", "online_reconstruct"}
           /\ pc = "done" => result.tag = "Err"

\* C9: a run that receives fewer than the configured n submissions ends in an
\* error and returns no output.
C9_MissingContributorAborts ==
    (pc = "done" /\ Len(online.user_data) < config.num_users)
        => result.tag = "Err"

\* C10: with one computational party withheld from the reveal, the run returns
\* no value: it ends in an error (InsufficientShares at the reveal).
C10_WithheldPartyFails ==
    (pc = "done" /\ Cardinality((DOMAIN servers) \cap 1..2) = 1)
        => result.tag = "Err"

\* C11: a share-store entry point invoked on an Auxiliary server fails: once one
\* has been invoked on such a server, the run has ended in an error.
C11_RoleCheckFails ==
    \A id \in DOMAIN servers :
        (servers[id].role = "Auxiliary" /\ log[id] # {})
            => (pc = "done" /\ result.tag = "Err")

\* C12: when the offline phase has completed for n contributors, servers 1 and 2
\* hold permutation shares of dimension n x n, mask shares of dimension n x d and
\* noise shares of dimension n x d (d = 2 features).
C12_ShareDimensions ==
    \A id \in 1..2 :
        (ReceiveEntries \subseteq log[id])
            => LET n == config.num_users
                   s == servers[id]
               IN /\ Len(s.permutation_shares) = n
                  /\ \A i \in 1..Len(s.permutation_shares) :
                        Len(s.permutation_shares[i]) = n
                  /\ Len(s.mask_shares) = n
                  /\ \A i \in 1..Len(s.mask_shares) : Len(s.mask_shares[i]) = Features
                  /\ Len(s.noise_shares) = n
                  /\ \A i \in 1..Len(s.noise_shares) : Len(s.noise_shares[i]) = Features

\* C13: after offline distribution the Auxiliary server holds nothing, and that
\* stays so through the online phase: its three share stores are empty and its
\* final_result is None.
C13_AuxHoldsNothing ==
    (ReceiveEntries \subseteq log[1])
        => /\ servers[0].permutation_shares = <<>>
           /\ servers[0].mask_shares = <<>>
           /\ servers[0].noise_shares = <<>>
           /\ servers[0].final_result = <<>>

\* C13 happens: the offline phase stored on server 0 and distributed, and the
\* online phase ran to its result on at least one record
C13_Reached ==
    /\ pc = "done"
    /\ result.tag = "Ok"
    /\ Len(online.user_data) > 0
    /\ "store_permutation_shares" \in log[0]
    /\ ReceiveEntries \subseteq log[1]

\* C14: contributor and Aux agree on the masks: the mask Aux generated for
\* contributor i is the one compute_user_mask derives for user id i with the seed
\* of that contributor (the seed i of the records handed to execute).
C14_MaskAgreement ==
    (pc \in {"offline_share_permutation", "offline_share_masks"})
        => \A i \in 1..config.num_users :
              aux.masks[i] = compute_user_mask(config, i - 1, i - 1)

\* OnlinePhase::execute as one function of the servers and the records: the four
\* steps in sequence, each `?` returning the error
OnlineExecute(cfg, svs, user_data) ==
    LET user_shares == process_user_submissions(cfg, user_data)
    IN IF ~IsOk(user_shares) THEN ErrSeq(user_shares.err)
       ELSE LET shuffled == silent_shuffle(cfg, svs, user_shares.val)
            IN IF ~IsOk(shuffled) THEN ErrSeq(shuffled.err)
               ELSE LET randomized == silent_randomization(cfg, svs, shuffled.val)
                    IN IF ~IsOk(randomized.res) THEN ErrSeq(randomized.res.err)
                       ELSE LET final == reconstruct_result(cfg, randomized.servers)
                            IN IF ~IsOk(final) THEN ErrSeq(final.err)
                               ELSE Ok(final.val)

\* the arrival orders of the records of user_data
ArrivalOrders(user_data) ==
    {[i \in 1..Len(user_data) |-> user_data[f[i]]] : f \in ShuffleOutcomes(Len(user_data))}

\* C15: submissions commute: with the servers' share stores fixed, the same
\* records presented in any arrival order give the same revealed output.
C15_SubmissionsCommute ==
    (pc = "done" /\ result.tag = "Ok")
        => \A reordered \in ArrivalOrders(online.user_data) :
              OnlineExecute(config, servers, reordered) = Ok(result.val)

\* Lagrange interpolation at x = 0 of the line through (2, y2) and (3, y3):
\* y2 * (0 - 3) / (2 - 3) + y3 * (0 - 2) / (3 - 2), in the field of y2
LagrangeAtZero(y2, y3) ==
    LET p == y2.modulus
        x0 == zero(p)
        x2 == FieldElementNew(2, p)
        x3 == FieldElementNew(3, p)
        l2 == div(sub(x0, x3).val, sub(x2, x3).val).val
        l3 == div(sub(x0, x2).val, sub(x3, x2).val).val
    IN add(mul(y2, l2).val, mul(y3, l3).val).val

\* C16: the reveal of combine_server_results equals, element by element, the
\* Lagrange interpolation at x = 0 of server 1's and server 2's final results
\* taken as the values at points 2 and 3.
C16_RevealIsInterpolation ==
    (pc = "done" /\ result.tag = "Ok" /\ {1, 2} \subseteq DOMAIN servers)
        => \A i \in 1..Len(result.val) :
              \A j \in 1..Len(result.val[i]) :
                 result.val[i][j] =
                     LagrangeAtZero(get_final_result(servers[1])[i][j],
                                    get_final_result(servers[2])[i][j])

\* C17: over every prime modulus the elements form a commutative ring with
\* identity: addition and multiplication are associative and commutative,
\* multiplication distributes over addition, a + 0 = a, a * 1 = a and
\* a + (-a) = 0.
C17_FieldLaws ==
    (field.pc = "new" /\ field.a.modulus \in WordPrimes /\ field.b.modulus = field.a.modulus)
        => LET a == Ok(field.a)
               b == Ok(field.b)
               c == Ok(field.c)
               p == field.a.modulus
               Add(x, y) == IF ~IsOk(x) THEN x ELSE IF ~IsOk(y) THEN y
                            ELSE add_w(x.val, y.val, field.build)
               Mul(x, y) == IF ~IsOk(x) THEN x ELSE IF ~IsOk(y) THEN y
                            ELSE mul(x.val, y.val)
           IN /\ Add(Add(a, b), c) = Add(a, Add(b, c))
              /\ Add(a, b) = Add(b, a)
              /\ Mul(Mul(a, b), c) = Mul(a, Mul(b, c))
              /\ Mul(a, b) = Mul(b, a)
              /\ Mul(a, Add(b, c)) = Add(Mul(a, b), Mul(a, c))
              /\ Add(a, Ok(zero(p))) = a
              /\ Mul(a, Ok(one(p))) = a
              /\ Add(a, Ok(neg(field.a))) = Ok(zero(p))

\* the greatest common divisor
RECURSIVE Gcd(_, _)
Gcd(x, y) == IF y = 0 THEN x ELSE Gcd(y, x % y)

\* C18: inverse of zero fails with DivisionByZero; inverse fails with
\* NoInverse whenever gcd(a, p) is not 1; and over every prime that is_prime
\* accepts, the primes of the upper half of the word included, a nonzero a has
\* a * inverse(a) = 1.
C18_InverseIsCorrect ==
    (field.pc = "done" /\ field.op = "inverse")
        => LET a == field.a
               p == a.modulus
           IN /\ a.value = 0 => field.out = ErrElem("DivisionByZero")
              /\ (a.value # 0 /\ Gcd(a.value, p) # 1) => field.out = ErrElem("NoInverse")
              /\ (a.value # 0 /\ is_prime_w(p, field.build) = "true")
                    => /\ IsOk(field.out)
                       /\ mul(a, field.out.val) = Ok(one(p))

\* C19: over every modulus an unsigned word holds, add, sub and mul return the
\* exact (a + b) mod p, (a - b) mod p and (a * b) mod p, with no overflow and no
\* wrap.
C19_ExactArithmetic ==
    (field.pc = "done" /\ field.a.modulus = field.b.modulus)
        => LET x == field.a.value
               y == field.b.value
               p == field.a.modulus
           IN /\ field.op = "add" => field.out = Ok(FieldElementNew((x + y) % p, p))
              /\ field.op = "sub" => field.out = Ok(FieldElementNew((x + p - y) % p, p))
              /\ field.op = "mul" => field.out = Ok(FieldElementNew((x * y) % p, p))

\* C20: add, sub, mul and div of two elements of different moduli fail with
\* ModulusMismatch, and two elements of different moduli never compare equal.
C20_ModulusMismatch ==
    (field.pc = "done" /\ field.a.modulus # field.b.modulus)
        => /\ field.op \in {"add", "sub", "mul", "div"}
                 => field.out = ErrElem("ModulusMismatch")
           /\ ~eq(field.a, field.b)

\* div was applied to two elements of one value and of different moduli
C20_Reached ==
    /\ field.pc = "done"
    /\ field.op = "div"
    /\ field.a.modulus # field.b.modulus
    /\ field.a.value = field.b.value
    /\ field.out = ErrElem("ModulusMismatch")

\* C21: FiniteField::new(p) succeeds exactly when p is prime and fails with
\* NonPrimeModulus for every other p (0, 1 and 8 included); neither
\* ShamirSecretSharing::new nor ToyProtocol::new accepts a modulus that is not
\* prime.
C21_NonPrimeRejected ==
    (field.pc = "done" /\ field.a = NoElem)
        => /\ field.op = "FiniteField::new"
                 => IF field.n \in WordPrimes THEN IsOk(field.out)
                    ELSE field.out = ErrElem("NonPrimeModulus")
           /\ field.n \notin WordPrimes => ~IsOk(field.out)

\* C22: field construction accepts the default modulus: is_prime answers for it,
\* with no overflow of i * i, that it is prime, so FiniteField::new and
\* ToyProtocol::new of the default configuration return Ok.
C22_DefaultModulusAccepted ==
    (/\ field.pc = "done"
     /\ field.op \in {"FiniteField::new", "ToyProtocol::new"}
     /\ field.n = DefaultModulus)
        => IsOk(field.out)

\* C23: reconstruct_secret on fewer shares than the threshold of 2 fails with
\* InsufficientShares and returns no value.
C23_TooFewShares ==
    (shamir.pc = "done" /\ Len(shamir.picked) < shamir.ss.threshold)
        => shamir.out = ErrElem("InsufficientShares")

\* C24: for n contributors and every feature dimension d >= 1, execute on n
\* records of d field elements each succeeds and returns exactly n vectors, each
\* of length d.
C24_OutputDimensions ==
    (/\ pc = "done"
     /\ Len(online.user_data) = config.num_users
     /\ \A i \in 1..Len(online.user_data) : Len(online.user_data[i].data) >= 1)
        => /\ result.tag = "Ok"
           /\ Len(result.val) = config.num_users
           /\ \A i \in 1..Len(result.val) :
                 Len(result.val[i]) = Len(online.user_data[i].data)

\* C25: each party follows Offline, Online, Participating, Completed, with Failed
\* on error: after a successful execute every party that took part is Completed,
\* after a failed one it is Failed, and at no time is a party in another state
\* than these.
C25_PartyStateMachine ==
    /\ \A id \in DOMAIN servers :
          servers[id].state \in {"Offline", "Online", "Participating", "Completed", "Failed"}
    /\ (pc = "done" /\ result.tag = "Ok")
          => \A id \in DOMAIN servers : servers[id].state = "Completed"
    /\ (pc = "done" /\ result.tag = "Err")
          => \A id \in DOMAIN servers : servers[id].state = "Failed"

\* the three share stores of a server
ShareStores(server) ==
    <<server.permutation_shares, server.mask_shares, server.noise_shares>>

\* C26: the offline phase fails before distribution: a call of
\* OfflinePhase::execute that returns an error leaves the share stores of every
\* party as they were.
C26_FailsBeforeDistribution ==
    [][(pc = "setup" /\ pc' = "done" /\ result'.tag = "Err")
          => \A id \in DOMAIN servers :
                ShareStores(servers'[id]) = ShareStores(servers[id])]_vars

\* C26 happens: the offline phase failed at the sharing, on servers that held
\* shares, with a server 0 that stores what it is given
C26_Reached ==
    /\ pc = "done"
    /\ result.tag = "Err"
    /\ result.err = "SharingFailed"
    /\ 0 \in DOMAIN servers
    /\ servers[0].role = "Computational"
    /\ servers[1].permutation_shares # <<>>

\* C27: runs are repeatable without carry-over: when a call of execute on an
\* instance that ran before returns a result, the result, the field-operation
\* count reported with it and the final_result of every server are those of the
\* same run (same share stores, same records) on a new instance.
C27_RunsRepeatable ==
    (pc = "done" /\ result.tag = "Ok")
        => LET fresh == [id \in DOMAIN servers |->
                            ReceiveAll(NewServers[id], servers[id].permutation_shares,
                                       servers[id].mask_shares, servers[id].noise_shares)]
               user_shares == process_user_submissions(config, online.user_data)
               shuffled == silent_shuffle(config, fresh, user_shares.val)
               randomized == silent_randomization(config, fresh, shuffled.val)
               final == reconstruct_result(config, randomized.servers)
           IN /\ result.val = final.val
              /\ result.field_operations =
                    user_shares.ops + shuffled.ops + randomized.res.ops + final.ops
              /\ \A id \in DOMAIN servers :
                    servers[id].final_result = randomized.servers[id].final_result

\* C28: within one run the share stores of each computational party are written
\* once, at the distribution of the offline phase (one call of each receive_
\* entry point), every online step leaves them as they are, and final_result is
\* written once, by the silent randomization.
C28_StoresWrittenOnce ==
    [][\A id \in (DOMAIN servers) \cap 1..2 :
          /\ pc \in {"online_submissions", "online_shuffle", "online_randomization",
                     "online_reconstruct"}
                => /\ ShareStores(servers'[id]) = ShareStores(servers[id])
                   /\ log'[id] = log[id]
          /\ (log'[id] # log[id] \/ ShareStores(servers'[id]) # ShareStores(servers[id]))
                => /\ pc = "offline_distribute"
                   /\ log[id] = {}
                   /\ log'[id] = ReceiveEntries
          /\ servers'[id].final_result # servers[id].final_result
                => /\ pc = "online_randomization"
                   /\ servers[id].final_result = <<>>
          /\ (pc = "online_randomization" /\ pc' = "online_reconstruct")
                => servers'[id].final_result # <<>>]_vars

\* C28 happens: a run went through the distribution and the four online steps on
\* at least one record
C28_Reached ==
    /\ pc = "done"
    /\ result.tag = "Ok"
    /\ Len(online.user_data) > 0
    /\ log[1] = ReceiveEntries
    /\ log[2] = ReceiveEntries
    /\ servers[1].final_result # <<>>
    /\ servers[2].final_result # <<>>

\* the secret of a stored sharing <<share at 1, share at 2, share at 3>>: the
\* interpolation at x = 0 through the shares at points 2 and 3
SharedSecret(shares) == LagrangeAtZero(shares[2].value, shares[3].value)

\* the sum over columns j.. of Pi[i][j] * data[j][k] (1-based), Pi being the matrix
\* that permutation_shares shares
RECURSIVE PermutedElement(_, _, _, _, _)
PermutedElement(permutation_shares, data, i, k, j) ==
    IF j > Len(data) THEN zero(data[1][k].modulus)
    ELSE add(mul(SharedSecret(permutation_shares[i][j]), data[j][k]).val,
             PermutedElement(permutation_shares, data, i, k, j + 1)).val

\* C29: the local shuffles of servers 1 and 2 are Shamir shares of Pi * (x - a):
\* with both servers holding the sharing of Pi, the interpolation at x = 0 of
\* their outputs, taken at points 2 and 3, is the sum over j of
\* Pi[i][j] * (x_j - a_j) for every row i and feature k.
C29_ShuffleSharesValid ==
    (/\ pc = "online_randomization"
     /\ {1, 2} \subseteq DOMAIN servers
     /\ Len(online.user_shares) = config.num_users
     /\ Len(servers[1].permutation_shares) = config.num_users
     /\ servers[2].permutation_shares = servers[1].permutation_shares)
        => LET out1 == compute_local_shuffle(config, servers[1], online.user_shares)
               out2 == compute_local_shuffle(config, servers[2], online.user_shares)
           IN /\ IsOk(out1)
              /\ IsOk(out2)
              /\ \A i \in 1..config.num_users :
                    \A k \in 1..Features :
                       LagrangeAtZero(out1.val[i][k], out2.val[i][k]) =
                           PermutedElement(servers[1].permutation_shares,
                                           online.user_shares, i, k, 1)

\* C30: the noise is added position-wise on shares: what server id adds to the
\* shuffled element (i, k) is its own share, the one at point id + 1, of the
\* noise entry of user i, for every feature k.
C30_NoiseAddedPositionWise ==
    \A id \in (DOMAIN servers) \cap 1..2 :
       (/\ pc = "online_reconstruct"
        /\ Len(online.shuffled_shares) = config.num_users
        /\ Len(servers[id].noise_shares) = config.num_users)
           => /\ servers[id].final_result # <<>>
              /\ \A i \in 1..config.num_users :
                    \A k \in 1..Features :
                       Ok(get_final_result(servers[id])[i][k]) =
                           add(online.shuffled_shares[i][k],
                               servers[id].noise_shares[i][id + 1].value)

\* C31: for every prime that ShamirSecretSharing::new(2, 3, p) accepts, the three
\* shares of share_secret have ids 0, 1, 2 and points id + 1 that are nonzero and
\* pairwise distinct as field elements.
C31_PointsValid ==
    (shamir.pc = "shared" /\ shamir.op = "share")
        => LET shares == shamir.shares_a
           IN /\ Len(shares) = 3
              /\ \A i \in 1..3 :
                    /\ shares[i].id = i - 1
                    /\ shares[i].point = FieldElementNew(shares[i].id + 1, shamir.ss.modulus)
                    /\ ~is_zero(shares[i].point)
              /\ \A i, j \in 1..3 : i # j => shares[i].point # shares[j].point

\* C32: the matrix of generate_permutation_matrix is n x n over the field, and
\* every row and every column of it holds exactly one 1 and n - 1 zeros.
C32_PermutationMatrix ==
    aux.permutation_matrix # <<>>
        => LET matrix == aux.permutation_matrix
               n == config.num_users
               p == config.field_modulus
           IN /\ Len(matrix) = n
              /\ \A i \in 1..n :
                    /\ Len(matrix[i]) = n
                    /\ \A j \in 1..n : matrix[i][j] \in {zero(p), one(p)}
                    /\ Cardinality({j \in 1..n : matrix[i][j] = one(p)}) = 1
              /\ \A j \in 1..n :
                    Cardinality({i \in 1..n : matrix[i][j] = one(p)}) = 1

\* C32 happens: a matrix for more than one user, not the identity
C32_Reached ==
    /\ aux.permutation_matrix # <<>>
    /\ config.num_users > 1
    /\ aux.permutation_matrix[1][2] = one(config.field_modulus)

\* C33: every element that new, add, sub, mul, div, inverse, pow, neg or random
\* produces from elements with value below their modulus has a value in [0, p)
\* and the modulus p of its operands.
C33_ElementsReduced ==
    (/\ field.pc = "done"
     /\ field.op \in {"new", "add", "sub", "mul", "div", "inverse", "pow", "neg", "random"}
     /\ IsOk(field.out))
        => /\ field.out.val.value \in 0..(field.a.modulus - 1)
           /\ field.out.val.modulus = field.a.modulus

\* C33 happens: an addition went beyond the word in a release build and gave
\* an element
C33_Reached ==
    /\ field.pc = "done"
    /\ field.op = "add"
    /\ field.build = "release"
    /\ field.a.value + field.b.value >= Word
    /\ IsOk(field.out)

\* C34: add_shares(A, B) fails and produces no shares whenever A and B differ
\* in length, or some position pairs two shares whose ids differ or whose points
\* differ.
C34_AddSharesChecksPairs ==
    (shamir.pc = "added" /\ shamir.op = "add_shares")
        => LET a == shamir.shares_a
               b == shamir.shares_b
           IN (\/ Len(a) # Len(b)
               \/ \E k \in 1..Len(a) : a[k].id # b[k].id \/ a[k].point # b[k].point)
                 => /\ ~IsOk(shamir.out)
                    /\ shamir.cur = <<>>

\* C35: vector_add, vector_sub and vector_mul fail with DimensionMismatch when
\* the operand lengths differ; matrix_vector_mul fails with EmptyInput on an
\* empty matrix or vector and fails unless every row of the matrix has exactly
\* as many columns as the vector has elements.
C35_DimensionsChecked ==
    field.pc = "done"
        => /\ (field.op \in {"vector_add", "vector_sub", "vector_mul"}
               /\ Len(field.va) # Len(field.vb))
                 => field.vout = ErrSeq("DimensionMismatch")
           /\ field.op = "matrix_vector_mul"
                 => /\ (field.matrix = <<>> \/ field.vb = <<>>)
                          => field.vout = ErrSeq("EmptyInput")
                    /\ (\E r \in 1..Len(field.matrix) :
                           Len(field.matrix[r]) # Len(field.vb))
                          => ~IsOk(field.vout)

\* C36: receive_shares on a role that holds no data (Third, Helper) returns an
\* error and leaves the shares and the state of the server as they are; on First
\* or Second it appends the shares to those held and moves the server to
\* Participating.
C36_ReceiveSharesByRole ==
    [][(mp' # mp /\ mp'.last.op = "receive_shares")
          => IF mp.server.role \in {"Third", "Helper"}
             THEN /\ mp'.last.res # "Ok"
                  /\ mp'.server.shares = mp.server.shares
                  /\ mp'.server.state = mp.server.state
             ELSE /\ mp'.last.res = "Ok"
                  /\ mp'.server.shares = mp.server.shares \o mp'.last.arg
                  /\ mp'.server.state = "Participating"]_vars

\* C36 happens: a server holding shares received more, and holds both
C36_Reached ==
    /\ mp.last.op = "receive_shares"
    /\ mp.last.res = "Ok"
    /\ mp.server.role = "Second"
    /\ mp.last.arg # <<>>
    /\ Len(mp.server.shares) > Len(mp.last.arg)

\* C37: a channel passes nothing while disconnected: from a channel that is not
\* connected (connect not called since creation or since the last disconnect),
\* send, receive and receive_timeout return a network error, and no step
\* changes the queue.
C37_DisconnectedPassesNothing ==
    [][~mp.channel.connected
          => /\ mp'.channel.queue = mp.channel.queue
             /\ (mp' # mp /\ mp'.last.op \in {"send", "receive", "receive_timeout"})
                   => mp'.last.res = "NetworkError"]_vars

\* C37 happens: a send was rejected on a channel disconnected with a message
\* still queued
C37_Reached ==
    /\ ~mp.channel.connected
    /\ mp.last.op = "send"
    /\ mp.last.res = "NetworkError"
    /\ mp.channel.queue # <<>>

\* the shares some server id below num_servers holds in the returned map
AssignedShares ==
    UNION {{mp.manager.assigned[sv][k] : k \in 1..Len(mp.manager.assigned[sv])} :
              sv \in {x \in DOMAIN mp.manager.assigned : x < mp.manager.num_servers}}

\* C38: distribute_shares terminates for every strategy and every list of
\* shares, Custom weights with zeros included, and every input share is then
\* assigned to some server id below num_servers.
C38_DistributeTerminates ==
    <>(/\ mp.manager.pc = "done"
       /\ \A share \in 0..(mp.manager.shares - 1) : share \in AssignedShares)

\* the values the value field of share k can take when `secret` is shared
PossibleValues(ss, secret, k) ==
    {crypto_share_secret(ss, secret, drawn).shares[k].value : drawn \in CryptoDraws(ss)}

\* C39: no single share determines the secret: once a secret is shared, the
\* possible values of each share's value field are the same as for any other
\* secret below the modulus.
C39_ShareValueHidesSecret ==
    (mp.last.op = "share_secret" /\ mp.last.res = "Ok")
       => \A k \in 1..mp.crypto.ss.num_shares, other \in 0..(mp.crypto.ss.modulus - 1) :
             PossibleValues(mp.crypto.ss, other, k)
                = PossibleValues(mp.crypto.ss, mp.crypto.secret, k)

====
